---------------------------- MODULE Spec2Model ----------------------------
(***************************************************************************)
(* shotStopper brew-control core (src/src/main.cpp): the control tick      *)
(* loop() with its deferred BLE write queue, debounced input, scale link,  *)
(* shot session, trend estimator and offset learner.                       *)
(*                                                                         *)
(* Units.  millis() is kept in time units of MsPerUnit milliseconds;       *)
(* seconds_f() and every float holding seconds (start_timestamp_s,         *)
(* shotTimer, end_s, the durations) are kept in the same units, so a       *)
(* duration of d seconds is d * UnitsPerSecond.  Weights are kept in       *)
(* 1/WeightUnitsPerGram gram.  Float arithmetic is exact here except for   *)
(* the IEEE results of a division by zero (inf, NaN), which are kept.      *)
(*                                                                         *)
(* Clock origin.  loop() uses the clock only in differences against        *)
(* lastButtonRead_ms and start_timestamp_s (+ end_s); start_timestamp_s    *)
(* = 0 is in addition the "no shot recorded" marker.  After every pass     *)
(* the origin is moved so that millis() reads MaxNow again (Rebase), which *)
(* keeps the state space finite without changing any such difference.     *)
(* Init is the device idle, MaxNow time units after boot.                  *)
(***************************************************************************)
EXTENDS Integers, Sequences, FiniteSets, TLC

\* ------------------------------------------------------------ constants
BUTTON_READ_PERIOD_MS == 5
MAX_SHOT_DATAPOINTS == 1000
N == 10
BUTTON_STATE_ARRAY_LENGTH == 31
MsPerSecond == 1000

\* ------------------------------------------------------------ bounds
MsPerUnit == 250
WeightUnitsPerGram == 2
MaxNow == 33
MaxPinEdges == 3
MaxWrites == 1
MaxSessions == 2
MaxCallbacks == 2
MaxDrains == 2
MaxSamples == 1
MaxRequests == 2
MaxStored == 12
MaxFlips == 3
SamplesPerUnit == 50

UnitsPerSecond == MsPerSecond \div MsPerUnit

Secs(d) == d * UnitsPerSecond
Grams(g) == g * WeightUnitsPerGram

\* the time between two passes of loop(), in time units
DT == {1}
\* weights the scale reports
ScaleWeights == {Grams(40)}
\* payload bytes a client writes
ByteVals == {0, 1, 10}

Slots == {"weight", "reedSwitch", "momentary", "autoTare",
          "minShotDuration", "maxShotDuration", "dripDelay"}

\* ENDTYPE
BUTTON == "BUTTON"
WEIGHT == "WEIGHT"
TIME == "TIME"
DISCONNECT == "DISCONNECT"
UNDEF == "UNDEF"

VARIABLES
    now,                \* millis(), in time units
    pin,                \* raw input line: TRUE = active (reads LOW)
    link,               \* scale link: "disconnected" | "connecting" | "connected"
    currentWeight,
    shot,               \* struct Shot
    buttonArr, buttonPressed, buttonLatched, lastButtonRead_ms, newButtonState,
    out,                \* output line OUT: TRUE = HIGH
    goalWeight, weightOffset, maxOffset, brewPulseDuration, dripDelay,
    reedSwitchDelay, minWeightForPrediction, minShotDuration, maxShotDuration,
    targetTime, momentary, reedSwitch, autoTare, brewByTimeOnly,
    brewByTimeOnlyConfigured,
    server,             \* the BLE server object exists: NimBLEDevice::getServer() != nullptr
    pendingWrite,       \* struct PendingWrite: [dirty, val], one entry per slot
    events,             \* what the last step logged, wrote to OUT and asked of the scale/store
    pinEdges, writes,   \* how many input edges and client writes so far
    sessions,           \* how many sessions have been started so far
    pc,                 \* where loop() stands when its drain is taken step by step
    cb,                 \* the onWrite callback in progress on the BLE task, if any
    needsSave,          \* processPendingBLEWrites' local, between two of its steps
    drains,             \* how many drains have been completed step by step
    history,            \* the requestWrites so far, in the order they began
    flagTag,            \* per slot, which requestWrite set the dirty flag last
    lastRead,           \* what the drain last read from a dirty slot
    lastReq,            \* per slot, the value of the last completed requestWrite
    phase               \* per slot, how far a drain has come since that requestWrite

progVars == <<now, link, currentWeight, shot, buttonArr, buttonPressed, buttonLatched,
              lastButtonRead_ms, newButtonState, out, goalWeight, weightOffset, maxOffset,
              brewPulseDuration, dripDelay, reedSwitchDelay, minWeightForPrediction,
              minShotDuration, maxShotDuration, targetTime, momentary, reedSwitch,
              autoTare, brewByTimeOnly, brewByTimeOnlyConfigured, server>>

concVars == <<pc, cb, needsSave, drains, history, flagTag, lastRead, lastReq, phase>>
vars == <<progVars, pin, pendingWrite, events, pinEdges, writes, sessions, concVars>>

\* ------------------------------------------------------------ floats
\* a float that may be the result of a division by zero
Fin(x) == [k |-> "fin", n |-> x, d |-> 1]
Quot(p, q) ==
    IF q # 0 THEN (IF q > 0 THEN [k |-> "fin", n |-> p, d |-> q]
                            ELSE [k |-> "fin", n |-> -p, d |-> -q])
    ELSE IF p > 0 THEN [k |-> "pinf", n |-> 0, d |-> 1]
    ELSE IF p < 0 THEN [k |-> "ninf", n |-> 0, d |-> 1]
    ELSE [k |-> "nan", n |-> 0, d |-> 1]

\* x >= f for a finite x
GeqF(x, f) ==
    CASE f.k = "fin" -> x * f.d >= f.n
      [] f.k = "ninf" -> TRUE
      [] OTHER -> FALSE

Range(seq) == {seq[i] : i \in 1..Len(seq)}

\* Single precision.  A float variable is counted in units of a gram divided by a
\* power of two; it has 24 significant bits.
\* the distance between neighbouring floats at a >= 0, in those units
RECURSIVE Quantum(_)
Quantum(a) == IF a < 2^24 THEN 1 ELSE 2 * Quantum(a \div 2)

\* the float nearest to Q + R/D (Q >= 0, 0 <= R < D), ties to even
RoundRat(Q, R, D) ==
    LET q == Quantum(Q)
        lo == Q - (Q % q)
        twice == 2 * (D * (Q % q) + R)
    IN  IF twice > D * q \/ (twice = D * q /\ (lo \div q) % 2 = 1) THEN lo + q ELSE lo

\* the float result of an operation whose exact result is n
Float32(n) == IF n >= 0 THEN RoundRat(n, 0, 1) ELSE -RoundRat(-n, 0, 1)

\* a - b and a + b on floats
fsub(a, b) == Float32(a - b)
fadd(a, b) == Float32(a + b)

RECURSIVE SumOver(_, _, _)
SumOver(f, lo, hi) == IF lo > hi THEN 0 ELSE f[lo] + SumOver(f, lo + 1, hi)


\* ------------------------------------------------------------ program state as a record
Cur == [now |-> now, link |-> link, currentWeight |-> currentWeight, shot |-> shot,
        buttonArr |-> buttonArr, buttonPressed |-> buttonPressed,
        buttonLatched |-> buttonLatched, lastButtonRead_ms |-> lastButtonRead_ms,
        newButtonState |-> newButtonState, out |-> out, goalWeight |-> goalWeight,
        weightOffset |-> weightOffset, maxOffset |-> maxOffset,
        brewPulseDuration |-> brewPulseDuration, dripDelay |-> dripDelay,
        reedSwitchDelay |-> reedSwitchDelay,
        minWeightForPrediction |-> minWeightForPrediction,
        minShotDuration |-> minShotDuration, maxShotDuration |-> maxShotDuration,
        targetTime |-> targetTime, momentary |-> momentary, reedSwitch |-> reedSwitch,
        autoTare |-> autoTare, brewByTimeOnly |-> brewByTimeOnly,
        brewByTimeOnlyConfigured |-> brewByTimeOnlyConfigured, server |-> server,
        pendingWrite |-> pendingWrite, needsSave |-> FALSE, events |-> <<>>,
        saveOk |-> TRUE, heartbeatRequired |-> FALSE]

Emit(s, e) == [s EXCEPT !.events = Append(@, e)]

\* a call of config.save() that gives up the session when the write fails
configSave_givingUp(s) ==
    IF s.saveOk THEN Emit(s, "config.save")
    ELSE [Emit(Emit(s, "config.save"), "Failed to save config")
             EXCEPT !.shot.brewing = FALSE]

\* if (!config.save()) LOG(ERROR, ...): s.saveOk is what this pass's writes to the
\* store return
configSave(s) ==
    IF s.saveOk THEN Emit(s, "config.save")
    ELSE Emit(Emit(s, "config.save"), "Failed to save config")

isConnected(s) == s.link = "connected"
isConnecting(s) == s.link = "connecting"

\* seconds_f()
seconds_f(s) == s.now

\* delay(ms): the tick blocks and the clock runs on
delay(s, ms) == [s EXCEPT !.now = @ + (ms \div MsPerUnit)]

\* digitalWrite(OUT, level) with its log line
digitalWriteOut(s, level) ==
    Emit([s EXCEPT !.out = level], IF level THEN "Output HIGH" ELSE "Output LOW")

EndedBy(e) ==
    CASE e = TIME -> "Shot ended by time"
      [] e = WEIGHT -> "Shot ended by weight"
      [] e = BUTTON -> "Shot ended by button"
      [] e = DISCONNECT -> "Shot ended by disconnect"
      [] OTHER -> "Shot ended by undefined"

\* ------------------------------------------------------------ calculateEndTime
\* The arrays time_s[] and weight[] are kept as sequences of length datapoints:
\* the code never reads an index >= datapoints.
\* calculateEndTime without the test of the latest weight
calculateEndTime_noMinWeight(s) ==
    LET sh == s.shot
        dp == sh.datapoints
    IN  IF dp < N
        THEN Fin(s.maxShotDuration)
        ELSE
          LET lo == dp - N + 1
              sumXY == SumOver([i \in lo..dp |-> sh.time_s[i] * sh.weight[i]], lo, dp)
              sumX == SumOver([i \in lo..dp |-> sh.time_s[i]], lo, dp)
              sumY == SumOver([i \in lo..dp |-> sh.weight[i]], lo, dp)
              sumSquaredX == SumOver([i \in lo..dp |-> sh.time_s[i] * sh.time_s[i]], lo, dp)
              numM == N * sumXY - sumX * sumY
              denM == N * sumSquaredX - sumX * sumX
              \* m = numM / denM ; b = meanY - m * meanX
          IN  IF denM = 0
              THEN (IF numM < 0 THEN Fin(s.maxShotDuration) ELSE Quot(0, 0))
              ELSE IF numM < 0
              THEN Fin(s.maxShotDuration)
              ELSE Quot(denM * (N * (s.goalWeight - s.weightOffset) - sumY) + numM * sumX,
                        N * numM)

\* calculateEndTime projecting to goalWeight instead of goalWeight - weightOffset
calculateEndTime_noOffset(s) ==
    LET sh == s.shot
        dp == sh.datapoints
    IN  IF dp < N \/ sh.weight[dp] < s.minWeightForPrediction
        THEN Fin(s.maxShotDuration)
        ELSE
          LET lo == dp - N + 1
              sumXY == SumOver([i \in lo..dp |-> sh.time_s[i] * sh.weight[i]], lo, dp)
              sumX == SumOver([i \in lo..dp |-> sh.time_s[i]], lo, dp)
              sumY == SumOver([i \in lo..dp |-> sh.weight[i]], lo, dp)
              sumSquaredX == SumOver([i \in lo..dp |-> sh.time_s[i] * sh.time_s[i]], lo, dp)
              numM == N * sumXY - sumX * sumY
              denM == N * sumSquaredX - sumX * sumX
              \* m = numM / denM ; b = meanY - m * meanX
          IN  IF denM = 0
              THEN (IF numM < 0 THEN Fin(s.maxShotDuration) ELSE Quot(0, 0))
              ELSE IF numM < 0
              THEN Fin(s.maxShotDuration)
              ELSE Quot(denM * (N * s.goalWeight - sumY) + numM * sumX,
                        N * numM)

calculateEndTime(s) ==
    LET sh == s.shot
        dp == sh.datapoints
    IN  IF dp < N \/ sh.weight[dp] < s.minWeightForPrediction
        THEN Fin(s.maxShotDuration)
        ELSE
          LET lo == dp - N + 1
              sumXY == SumOver([i \in lo..dp |-> sh.time_s[i] * sh.weight[i]], lo, dp)
              sumX == SumOver([i \in lo..dp |-> sh.time_s[i]], lo, dp)
              sumY == SumOver([i \in lo..dp |-> sh.weight[i]], lo, dp)
              sumSquaredX == SumOver([i \in lo..dp |-> sh.time_s[i] * sh.time_s[i]], lo, dp)
              numM == N * sumXY - sumX * sumY
              denM == N * sumSquaredX - sumX * sumX
              \* m = numM / denM ; b = meanY - m * meanX
          IN  IF denM = 0
              THEN (IF numM < 0 THEN Fin(s.maxShotDuration) ELSE Quot(0, 0))
              ELSE IF numM < 0
              THEN Fin(s.maxShotDuration)
              ELSE Quot(denM * (N * (s.goalWeight - s.weightOffset) - sumY) + numM * sumX,
                        N * numM)

\* ------------------------------------------------------------ setBrewingState
\* the start of a session that keeps the stored samples
StartShot_keepSamples(s) ==
    LET s1 == Emit(s, "Shot started")
        s2 == [s1 EXCEPT !.shot.start_timestamp_s = seconds_f(s1),
                         !.shot.shotTimer = 0,
                         !.shot.expected_end_s = Fin(s1.maxShotDuration)]
    IN  IF isConnected(s2)
        THEN LET s3 == Emit(s2, "scale.resetTimer")
                 s4 == IF s3.autoTare THEN Emit(s3, "scale.tare") ELSE s3
             IN  Emit(s4, "scale.startTimer")
        ELSE Emit(s2, "Shot started (Time Mode)")

\* lines 788-808
StartShot(s) ==
    LET s1 == Emit(s, "Shot started")
        s2 == [s1 EXCEPT !.shot.start_timestamp_s = seconds_f(s1),
                         !.shot.shotTimer = 0,
                         !.shot.datapoints = 0,
                         !.shot.time_s = <<>>,
                         !.shot.weight = <<>>,
                         !.shot.expected_end_s = Fin(s1.maxShotDuration)]
    IN  IF isConnected(s2)
        THEN LET s3 == Emit(s2, "scale.resetTimer")
                 s4 == IF s3.autoTare THEN Emit(s3, "scale.tare") ELSE s3
             IN  Emit(s4, "scale.startTimer")
        ELSE Emit(s2, "Shot started (Time Mode)")

\* leaving Brewing with the pulse for every end reason
EndShot_pulseAlways(s) ==
    LET s1 == Emit(s, EndedBy(s.shot.end))
        s2 == Emit([s1 EXCEPT !.shot.end_s = seconds_f(s1) - s1.shot.start_timestamp_s],
                   "scale.stopTimer")
    IN  IF s2.momentary
        THEN LET s3 == digitalWriteOut(s2, TRUE)
                 s4 == delay(s3, s3.brewPulseDuration)
                 s5 == digitalWriteOut(s4, FALSE)
             IN  [s5 EXCEPT !.buttonPressed = FALSE]
        ELSE IF ~s2.momentary
        THEN digitalWriteOut(
                 Emit([s2 EXCEPT !.buttonLatched = FALSE, !.buttonPressed = FALSE],
                      "Button unlatched"), FALSE)
        ELSE s2

\* leaving Brewing without releasing the held output
EndShot_noRelease(s) ==
    LET s1 == Emit(s, EndedBy(s.shot.end))
        s2 == Emit([s1 EXCEPT !.shot.end_s = seconds_f(s1) - s1.shot.start_timestamp_s],
                   "scale.stopTimer")
    IN  IF s2.momentary /\ s2.shot.end \in {WEIGHT, TIME}
        THEN LET s3 == digitalWriteOut(s2, TRUE)
                 s4 == delay(s3, s3.brewPulseDuration)
                 s5 == digitalWriteOut(s4, FALSE)
             IN  [s5 EXCEPT !.buttonPressed = FALSE]
        ELSE IF ~s2.momentary
        THEN Emit([s2 EXCEPT !.buttonLatched = FALSE, !.buttonPressed = FALSE],
                  "Button unlatched")
        ELSE s2

\* lines 810-854
EndShot(s) ==
    LET s1 == Emit(s, EndedBy(s.shot.end))
        s2 == Emit([s1 EXCEPT !.shot.end_s = seconds_f(s1) - s1.shot.start_timestamp_s],
                   "scale.stopTimer")
    IN  IF s2.momentary /\ s2.shot.end \in {WEIGHT, TIME}
        THEN LET s3 == digitalWriteOut(s2, TRUE)
                 s4 == delay(s3, s3.brewPulseDuration)
                 s5 == digitalWriteOut(s4, FALSE)
             IN  [s5 EXCEPT !.buttonPressed = FALSE]
        ELSE IF ~s2.momentary
        THEN digitalWriteOut(
                 Emit([s2 EXCEPT !.buttonLatched = FALSE, !.buttonPressed = FALSE],
                      "Button unlatched"), FALSE)
        ELSE s2

\* setBrewingState without its last line (shot.end = UNDEF)
setBrewingState_noReset(s, brewing) ==
    IF brewing THEN StartShot(s) ELSE EndShot(s)

setBrewingState(s, brewing) ==
    LET s1 == IF brewing THEN StartShot(s) ELSE EndShot(s)
    IN  [s1 EXCEPT !.shot.end = UNDEF]


\* ------------------------------------------------------------ loop(): mode and link
\* the mode selection keeping time-only mode once the scale was found disconnected
SelectMode_sticky(s) ==
    [s EXCEPT !.brewByTimeOnly =
        IF ~s.brewByTimeOnlyConfigured THEN (s.brewByTimeOnly \/ ~isConnected(s)) ELSE TRUE]

\* lines 427-435
SelectMode(s) ==
    [s EXCEPT !.brewByTimeOnly =
        IF ~s.brewByTimeOnlyConfigured THEN ~isConnected(s) ELSE TRUE]

\* lines 444-449
StopOnDisconnect(s) ==
    IF s.shot.brewing /\ ~s.brewByTimeOnly
    THEN setBrewingState([s EXCEPT !.shot.brewing = FALSE, !.shot.end = DISCONNECT], FALSE)
    ELSE s

\* setupBLEServer(), lines 321-422: the server with its service and characteristics
\* is created and advertising starts
setupBLEServer(s) == Emit([s EXCEPT !.server = TRUE], "BLE server initialized")

\* lines 455-459
RecreateServer(s) ==
    IF ~s.server THEN setupBLEServer(Emit(s, "BLE server destroyed, re-creating")) ELSE s

\* lines 437-460; conn is what updateConnection() makes of a connection attempt
ManageLink(s, conn) ==
    IF isConnected(s) THEN s
    ELSE
      LET s1 == IF ~isConnecting(s)
                THEN StopOnDisconnect(
                         [Emit(s, "scale.init") EXCEPT !.link = "connecting",
                                                       !.currentWeight = 0])
                ELSE s
      IN  RecreateServer([Emit(s1, "scale.updateConnection") EXCEPT !.link = conn])

\* ------------------------------------------------------------ processPendingBLEWrites
uint8(x) == x % 256

\* the comparison with the current value and the update, for the value read from a slot
ApplyWrite(s, slot, val) ==
    CASE slot = "weight" ->
           IF val # uint8(s.goalWeight \div WeightUnitsPerGram)
           THEN Emit([s EXCEPT !.goalWeight = Grams(val), !.needsSave = TRUE],
                     "BLE: Goal weight updated")
           ELSE s
      [] slot = "reedSwitch" ->
           IF (val # 0) # s.reedSwitch
           THEN Emit([s EXCEPT !.reedSwitch = (val # 0), !.needsSave = TRUE],
                     "BLE: Reed switch updated")
           ELSE s
      [] slot = "momentary" ->
           IF (val # 0) # s.momentary
           THEN Emit([s EXCEPT !.momentary = (val # 0), !.needsSave = TRUE],
                     "BLE: Momentary updated")
           ELSE s
      [] slot = "autoTare" ->
           IF (val # 0) # s.autoTare
           THEN Emit([s EXCEPT !.autoTare = (val # 0), !.needsSave = TRUE],
                     "BLE: Auto tare updated")
           ELSE s
      [] slot = "minShotDuration" ->
           IF Secs(val) # s.minShotDuration
           THEN Emit([s EXCEPT !.minShotDuration = Secs(val), !.needsSave = TRUE],
                     "BLE: Min shot duration updated")
           ELSE s
      [] slot = "maxShotDuration" ->
           IF Secs(val) # s.maxShotDuration
           THEN Emit([s EXCEPT !.maxShotDuration = Secs(val), !.needsSave = TRUE],
                     "BLE: Max shot duration updated")
           ELSE s
      [] slot = "dripDelay" ->
           IF Secs(val) # s.dripDelay
           THEN Emit([s EXCEPT !.dripDelay = Secs(val), !.needsSave = TRUE],
                     "BLE: Drip delay updated")
           ELSE s

\* the order in which the slots are drained
DrainOrder == <<"weight", "reedSwitch", "momentary", "autoTare",
                "minShotDuration", "maxShotDuration", "dripDelay">>

ClearDirty(s, slot) == [s EXCEPT !.pendingWrite.dirty[slot] = FALSE]

DrainSlot(s, slot) ==
    IF s.pendingWrite.dirty[slot]
    THEN LET s1 == ClearDirty(s, slot)
         IN  ApplyWrite(s1, slot, s1.pendingWrite.val[slot])
    ELSE s

RECURSIVE DrainFrom(_, _)
DrainFrom(s, i) ==
    IF i > Len(DrainOrder) THEN s ELSE DrainFrom(DrainSlot(s, DrainOrder[i]), i + 1)

\* the drain saving whether or not a parameter changed
SaveIfNeeded_always(s) == [Emit(s, "config.save") EXCEPT !.needsSave = FALSE]

\* lines 780-784
SaveIfNeeded(s) ==
    IF s.needsSave THEN [configSave(s) EXCEPT !.needsSave = FALSE] ELSE s

processPendingBLEWrites(s) == SaveIfNeeded(DrainFrom([s EXCEPT !.needsSave = FALSE], 1))

\* ------------------------------------------------------------ loop(): weight and timer
\* lines 494-526; evt is what the scale delivers in this tick: nothing, a weight, or
\* "drop": the link is found lost while polling
StoreSample(s) ==
    IF s.shot.brewing /\ s.shot.datapoints < MAX_SHOT_DATAPOINTS
    THEN LET t == seconds_f(s) - s.shot.start_timestamp_s
             s1 == [s EXCEPT !.shot.time_s = Append(@, t),
                             !.shot.weight = Append(@, s.currentWeight),
                             !.shot.shotTimer = t,
                             !.shot.datapoints = @ + 1]
         IN  [s1 EXCEPT !.shot.expected_end_s = calculateEndTime(s1)]
    ELSE s

\* the tick without the timer update of Time Mode
UpdateTimeModeTimer_none(s) == s

UpdateTimeModeTimer(s) ==
    IF s.shot.brewing /\ ~isConnected(s)
    THEN [s EXCEPT !.shot.shotTimer = seconds_f(s) - s.shot.start_timestamp_s]
    ELSE s

\* the heartbeat sent during a session only
Heartbeat_whenBrewing(s) ==
    IF isConnected(s) /\ s.heartbeatRequired
    THEN (IF s.shot.brewing
          THEN Emit(Emit(s, "scale.heartbeatRequired"), "scale.heartbeat")
          ELSE Emit(s, "scale.heartbeatRequired"))
    ELSE s

\* lines 490-492; s.heartbeatRequired is what scale->heartbeatRequired() returns
\* in this pass, logged as "scale.heartbeatRequired" when it is asked and says yes
Heartbeat(s) ==
    IF isConnected(s) /\ s.heartbeatRequired
    THEN Emit(Emit(s, "scale.heartbeatRequired"), "scale.heartbeat")
    ELSE s

ReadScale(s, evt) ==
    IF isConnected(s) /\ evt.kind = "weight"
    THEN StoreSample(Emit([s EXCEPT !.currentWeight = evt.w], "scale.getWeight"))
    ELSE UpdateTimeModeTimer(
             IF isConnected(s) /\ evt.kind = "drop"
             THEN [s EXCEPT !.link = "disconnected"] ELSE s)

\* ------------------------------------------------------------ loop(): button
\* the button read looking at all but the oldest reading
ReadButton_shortWindow(s, raw) ==
    IF (s.now - s.lastButtonRead_ms) * MsPerUnit > BUTTON_READ_PERIOD_MS
    THEN LET arr == <<IF raw THEN 1 ELSE 0>>
                      \o SubSeq(s.buttonArr, 1, BUTTON_STATE_ARRAY_LENGTH - 1)
             any == IF \E i \in 1..(Len(arr) - 1) : arr[i] # 0 THEN 1 ELSE 0
             forceOff == /\ s.reedSwitch
                         /\ ~s.shot.brewing
                         /\ seconds_f(s) < s.shot.start_timestamp_s + s.shot.end_s
                                           + s.reedSwitchDelay
         IN  [s EXCEPT !.lastButtonRead_ms = s.now,
                       !.buttonArr = arr,
                       !.newButtonState = IF forceOff THEN 0 ELSE any]
    ELSE s

\* lines 528-560
ReadButton(s, raw) ==
    IF (s.now - s.lastButtonRead_ms) * MsPerUnit > BUTTON_READ_PERIOD_MS
    THEN LET arr == <<IF raw THEN 1 ELSE 0>>
                      \o SubSeq(s.buttonArr, 1, BUTTON_STATE_ARRAY_LENGTH - 1)
             any == IF \E i \in 1..Len(arr) : arr[i] # 0 THEN 1 ELSE 0
             forceOff == /\ s.reedSwitch
                         /\ ~s.shot.brewing
                         /\ seconds_f(s) < s.shot.start_timestamp_s + s.shot.end_s
                                           + s.reedSwitchDelay
         IN  [s EXCEPT !.lastButtonRead_ms = s.now,
                       !.buttonArr = arr,
                       !.newButtonState = IF forceOff THEN 0 ELSE any]
    ELSE s


\* ------------------------------------------------------------ loop(): session
\* line 565
PressCond(s) == s.newButtonState # 0 /\ ~s.buttonPressed
\* lines 576-579
LatchCond(s) ==
    ~s.momentary /\ s.shot.brewing /\ ~s.buttonLatched
    /\ s.shot.shotTimer > s.minShotDuration
\* line 594
ReleaseCond(s) == ~s.buttonLatched /\ s.newButtonState = 0 /\ s.buttonPressed
\* lines 607-608
MaxDurationCond(s) == s.shot.brewing /\ s.shot.shotTimer > s.maxShotDuration
\* the target-time test with > for >=
TargetTimeCond_strict(s) ==
    s.shot.brewing /\ (~isConnected(s) \/ s.brewByTimeOnly)
    /\ s.shot.shotTimer > s.targetTime

\* lines 617-619
TargetTimeCond(s) ==
    s.shot.brewing /\ (~isConnected(s) \/ s.brewByTimeOnly)
    /\ s.shot.shotTimer >= s.targetTime
\* the weight stop without the comparison with the predicted end
WeightCond_noPrediction(s) ==
    isConnected(s) /\ ~s.brewByTimeOnly /\ s.shot.brewing
    /\ s.shot.shotTimer > s.minShotDuration

\* lines 628-632
WeightCond(s) ==
    isConnected(s) /\ ~s.brewByTimeOnly /\ s.shot.brewing
    /\ GeqF(s.shot.shotTimer, s.shot.expected_end_s)
    /\ s.shot.shotTimer > s.minShotDuration

\* the press branch without the test of reedSwitch
OnPress_noReedCheck(s) ==
    LET s1 == [Emit(s, "Button pressed") EXCEPT !.buttonPressed = TRUE]
    IN  setBrewingState([s1 EXCEPT !.shot.brewing = TRUE], TRUE)

\* lines 565-573
OnPress(s) ==
    LET s1 == [Emit(s, "Button pressed") EXCEPT !.buttonPressed = TRUE]
    IN  IF s1.reedSwitch
        THEN setBrewingState([s1 EXCEPT !.shot.brewing = TRUE], TRUE)
        ELSE s1

\* lines 580-588
OnLatch(s) ==
    LET s1 == digitalWriteOut(
                  Emit([s EXCEPT !.buttonLatched = TRUE], "Button latched"), TRUE)
    IN  IF s1.autoTare THEN Emit(s1, "scale.tare") ELSE s1

\* lines 595-603
OnRelease(s) ==
    LET s1 == [Emit(s, "Button released") EXCEPT !.buttonPressed = FALSE,
                                                 !.shot.brewing = ~s.shot.brewing]
        s2 == IF ~s1.shot.brewing THEN [s1 EXCEPT !.shot.end = BUTTON] ELSE s1
    IN  setBrewingState(s2, s2.shot.brewing)

\* lines 610-613
OnMaxDuration(s) ==
    setBrewingState([Emit(s, "Max brew duration reached")
                        EXCEPT !.shot.brewing = FALSE, !.shot.end = TIME], FALSE)

\* lines 621-624
OnTargetTime(s) ==
    setBrewingState([Emit(s, "Target brew time reached")
                        EXCEPT !.shot.brewing = FALSE, !.shot.end = TIME], FALSE)

\* lines 634-637
OnWeight(s) ==
    setBrewingState([Emit(s, "Weight achieved")
                        EXCEPT !.shot.brewing = FALSE, !.shot.end = WEIGHT], FALSE)

\* the chain with the max-duration test in front of the release test
StartHoldStop_maxFirst(s) ==
    IF PressCond(s) THEN OnPress(s)
    ELSE IF LatchCond(s) THEN OnLatch(s)
    ELSE IF MaxDurationCond(s) THEN OnMaxDuration(s)
    ELSE IF ReleaseCond(s) THEN OnRelease(s)
    ELSE IF TargetTimeCond(s) THEN OnTargetTime(s)
    ELSE s

\* lines 562-625: the if / else-if chain
StartHoldStop(s) ==
    IF PressCond(s) THEN OnPress(s)
    ELSE IF LatchCond(s) THEN OnLatch(s)
    ELSE IF ReleaseCond(s) THEN OnRelease(s)
    ELSE IF MaxDurationCond(s) THEN OnMaxDuration(s)
    ELSE IF TargetTimeCond(s) THEN OnTargetTime(s)
    ELSE s

\* lines 627-638
StopByWeight(s) == IF WeightCond(s) THEN OnWeight(s) ELSE s

\* ------------------------------------------------------------ loop(): shot analysis
Abs(x) == IF x < 0 THEN -x ELSE x

\* the guard of the learner without the test of the weight
AnalysisCond_noThreshold(s) ==
    /\ isConnected(s)
    /\ s.shot.start_timestamp_s # 0
    /\ s.shot.end_s # 0
    /\ seconds_f(s) > s.shot.start_timestamp_s + s.shot.end_s + s.dripDelay

\* lines 646-651
AnalysisCond(s) ==
    /\ isConnected(s)
    /\ s.shot.start_timestamp_s # 0
    /\ s.shot.end_s # 0
    /\ s.currentWeight >= fsub(s.goalWeight, s.weightOffset)
    /\ seconds_f(s) > s.shot.start_timestamp_s + s.shot.end_s + s.dripDelay

\* the learner leaving the recorded start and end of the shot as they are
AnalyseShot_keepPending(s) ==
    LET newOffset == s.weightOffset + (s.currentWeight - s.goalWeight)
    IN  IF Abs(s.currentWeight - s.goalWeight + s.weightOffset) > s.maxOffset
        THEN Emit(s, "Error assumed, offset unchanged")
        ELSE IF newOffset < 0
        THEN Emit(s, "Negative offset would result, offset unchanged")
        ELSE Emit(Emit([s EXCEPT !.weightOffset = newOffset], "New offset"), "config.save")

\* the learner without the test against maxOffset
AnalyseShot_noErrorCheck(s) ==
    LET s1 == [s EXCEPT !.shot.start_timestamp_s = 0, !.shot.end_s = 0]
        newOffset == s1.weightOffset + (s1.currentWeight - s1.goalWeight)
    IN  IF newOffset < 0
        THEN Emit(s1, "Negative offset would result, offset unchanged")
        ELSE Emit(Emit([s1 EXCEPT !.weightOffset = newOffset], "New offset"), "config.save")

\* the learner testing the error of the weight, without the offset, against maxOffset
AnalyseShot_errorOfWeight(s) ==
    LET s1 == [s EXCEPT !.shot.start_timestamp_s = 0, !.shot.end_s = 0]
        newOffset == s1.weightOffset + (s1.currentWeight - s1.goalWeight)
    IN  IF Abs(s1.currentWeight - s1.goalWeight) > s1.maxOffset
        THEN Emit(s1, "Error assumed, offset unchanged")
        ELSE IF newOffset < 0
        THEN Emit(s1, "Negative offset would result, offset unchanged")
        ELSE configSave(Emit([s1 EXCEPT !.weightOffset = newOffset], "New offset"))

\* lines 652-675
AnalyseShot(s) ==
    LET s1 == [s EXCEPT !.shot.start_timestamp_s = 0, !.shot.end_s = 0]
        newOffset == fadd(s1.weightOffset, fsub(s1.currentWeight, s1.goalWeight))
    IN  IF Abs(fadd(fsub(s1.currentWeight, s1.goalWeight), s1.weightOffset)) > s1.maxOffset
        THEN Emit(s1, "Error assumed, offset unchanged")
        ELSE IF newOffset < 0
        THEN Emit(s1, "Negative offset would result, offset unchanged")
        ELSE configSave(Emit([s1 EXCEPT !.weightOffset = newOffset], "New offset"))

ShotAnalysis(s) == IF AnalysisCond(s) THEN AnalyseShot(s) ELSE s

\* ------------------------------------------------------------ loop()
\* lines 424-471: up to the drain of the write queue
LoopHead(s, dt, conn) ==
    ManageLink(SelectMode([s EXCEPT !.now = @ + dt, !.events = <<>>]), conn)

\* lines 476-676: after the drain
LoopTail(s, evt, raw) ==
    ShotAnalysis(StopByWeight(StartHoldStop(ReadButton(ReadScale(Heartbeat(s), evt), raw))))

loop(s, dt, conn, evt, raw) ==
    LoopTail(processPendingBLEWrites(LoopHead(s, dt, conn)), evt, raw)


\* ------------------------------------------------------------ actions
Assign(r) ==
    /\ now' = r.now
    /\ link' = r.link
    /\ currentWeight' = r.currentWeight
    /\ shot' = r.shot
    /\ buttonArr' = r.buttonArr
    /\ buttonPressed' = r.buttonPressed
    /\ buttonLatched' = r.buttonLatched
    /\ lastButtonRead_ms' = r.lastButtonRead_ms
    /\ newButtonState' = r.newButtonState
    /\ out' = r.out
    /\ goalWeight' = r.goalWeight
    /\ weightOffset' = r.weightOffset
    /\ maxOffset' = r.maxOffset
    /\ brewPulseDuration' = r.brewPulseDuration
    /\ dripDelay' = r.dripDelay
    /\ reedSwitchDelay' = r.reedSwitchDelay
    /\ minWeightForPrediction' = r.minWeightForPrediction
    /\ minShotDuration' = r.minShotDuration
    /\ maxShotDuration' = r.maxShotDuration
    /\ targetTime' = r.targetTime
    /\ momentary' = r.momentary
    /\ reedSwitch' = r.reedSwitch
    /\ autoTare' = r.autoTare
    /\ brewByTimeOnly' = r.brewByTimeOnly
    /\ brewByTimeOnlyConfigured' = r.brewByTimeOnlyConfigured
    /\ server' = r.server
    /\ pendingWrite' = r.pendingWrite
    /\ events' = r.events

\* The times into a session at which the surroundings act; outside a session
\* they act at any time.
\* the scale delivers a weight
SampleInstants == {Secs(1) + 1, Secs(5) - 2, Secs(5)}
\* the link to the scale is found lost
DropInstants == {Secs(1) + 1, Secs(1) + 2, BUTTON_STATE_ARRAY_LENGTH}
\* a connection attempt completes
ConnectInstants == {Secs(1) + 1}
\* the input contact moves: right after the start (a tap)
PinInstants == {0}
\* a client writes a parameter
WriteInstants == {0}

InSession(dt, instants) ==
    shot.brewing => now + dt - shot.start_timestamp_s \in instants

\* what updateConnection() can make of the link in one tick
ConnOutcomes(dt) ==
    {"connecting"} \cup (IF InSession(dt, ConnectInstants) THEN {"connected"} ELSE {})

\* what the scale can deliver in one tick; a session is sent at most MaxSamples weights
NoEvent == [kind |-> "none", w |-> 0]
ScaleEvents(dt) ==
    {NoEvent}
    \cup (IF InSession(dt, DropInstants) THEN {[kind |-> "drop", w |-> 0]} ELSE {})
    \cup (IF InSession(dt, SampleInstants) /\ (shot.brewing => shot.datapoints < MaxSamples)
          THEN {[kind |-> "weight", w |-> x] : x \in ScaleWeights}
          ELSE {})

Max2(a, b) == IF a >= b THEN a ELSE b

\* the smallest age of the last button read that makes the next pass read again
ReadAgeCap == BUTTON_READ_PERIOD_MS \div MsPerUnit + 1

\* Move the clock origin so that millis() reads MaxNow.  An age that is already
\* beyond every threshold it is compared with is kept at the first such value:
\* the last button read, and the time since the end of a finished shot.
Rebase(r) ==
    LET delta == r.now - MaxNow
        idleCap == Max2(r.dripDelay, r.reedSwitchDelay) + 1
        start == r.shot.start_timestamp_s
    IN  [r EXCEPT !.now = MaxNow,
                  !.lastButtonRead_ms = Max2(@ - delta, MaxNow - ReadAgeCap),
                  !.shot.start_timestamp_s =
                      IF start = 0 THEN 0
                      ELSE IF r.shot.brewing THEN start - delta
                      ELSE Max2(start - delta, MaxNow - r.shot.end_s - idleCap)]

\* one pass of loop() from the program state c
TickOf(c, dt, conn, evt) ==
    LET raw == loop(c, dt, conn, evt, pin)
        r == Rebase(raw)
    IN  /\ conn = "connected" => link # "connected"
        /\ evt # NoEvent => (link = "connected" \/ conn = "connected")
        \* the recorded start of a shot stays inside the window of MaxNow time units
        /\ shot.brewing /\ shot.start_timestamp_s # 0 => now + dt - shot.start_timestamp_s < MaxNow
        /\ raw.shot.start_timestamp_s # 0 => r.shot.start_timestamp_s > 0
        /\ sessions' = sessions + Cardinality({i \in 1..Len(r.events) : r.events[i] = "Shot started"})
        /\ sessions' <= MaxSessions
        /\ Assign(r)
        /\ UNCHANGED <<pin, pinEdges, writes, concVars>>

Tick(dt, conn, evt) == TickOf(Cur, dt, conn, evt)

TickStep ==
    \E dt \in DT :
      \E conn \in (IF link = "connected" THEN {"none"} ELSE ConnOutcomes(dt)) :
        \E evt \in ScaleEvents(dt) : Tick(dt, conn, evt)

\* CharacteristicCallbacks::onWrite with a one-byte payload: value, then flag
requestWrite(pw, slot, val) ==
    [[pw EXCEPT !.val[slot] = val] EXCEPT !.dirty[slot] = TRUE]

OnWrite(slot, val) ==
    /\ shot.brewing /\ InSession(0, WriteInstants)
    /\ (val # 0) # (IF slot = "reedSwitch" THEN reedSwitch ELSE momentary)
    /\ writes < MaxWrites
    /\ pendingWrite' = requestWrite(pendingWrite, slot, val)
    /\ writes' = writes + 1
    /\ events' = <<>>
    /\ UNCHANGED <<progVars, pin, pinEdges, sessions, concVars>>

\* the parameters that select how a session starts and is held
ModeSlots == {"reedSwitch", "momentary"}

OnWriteStep == \E slot \in ModeSlots : \E val \in {0, 1} : OnWrite(slot, val)

\* how many of the readings in the window are active
RECURSIVE ActiveReadings(_, _)
ActiveReadings(arr, i) == IF i = 0 THEN 0 ELSE arr[i] + ActiveReadings(arr, i - 1)

\* The user or the machine moves the input contact: outside a session when the
\* contact has rested for a full debounce window, during a session at one of
\* PinInstants.
PinChange ==
    /\ IF shot.brewing
       THEN InSession(0, PinInstants)
       ELSE ActiveReadings(buttonArr, BUTTON_STATE_ARRAY_LENGTH)
                = (IF pin THEN BUTTON_STATE_ARRAY_LENGTH ELSE 0)
    /\ pinEdges < MaxPinEdges
    /\ pin' = ~pin
    /\ pinEdges' = pinEdges + 1
    /\ events' = <<>>
    /\ UNCHANGED <<progVars, pendingWrite, writes, sessions, concVars>>

\* where loop() stands: not in the drain, or at slot DrainOrder[i] about to test
\* the flag, clear it or read the value, or past the last slot
IdlePc == [i |-> 0, st |-> "idle", saw |-> 0]
NoCallback == [slot |-> "weight", val |-> 0, st |-> "none", id |-> 0]

\* ------------------------------------------------------------ the idle device after setup()
InitShot == [start_timestamp_s |-> 0, shotTimer |-> 0, end_s |-> 0,
             expected_end_s |-> Fin(0), time_s |-> <<>>, weight |-> <<>>,
             datapoints |-> 0, brewing |-> FALSE, end |-> UNDEF]

InitCommon ==
    /\ now = MaxNow
    /\ pin = FALSE
    /\ link = "disconnected"
    /\ currentWeight = 0
    /\ shot = InitShot
    /\ buttonArr = [i \in 1..BUTTON_STATE_ARRAY_LENGTH |-> 0]
    /\ buttonPressed = FALSE
    /\ buttonLatched = FALSE
    /\ lastButtonRead_ms = MaxNow - ReadAgeCap
    /\ newButtonState = 0
    /\ out = FALSE
    /\ weightOffset = Grams(3) \div 2
    /\ maxOffset = Grams(5)
    /\ brewPulseDuration = 300
    /\ dripDelay = Secs(1)
    /\ reedSwitchDelay = Secs(1) \div 2
    /\ minWeightForPrediction = Grams(10)
    /\ minShotDuration = Secs(1)
    /\ maxShotDuration = Secs(5)
    /\ targetTime = Secs(3)
    /\ autoTare = TRUE
    /\ brewByTimeOnly = brewByTimeOnlyConfigured
    /\ server = TRUE
    /\ pendingWrite = [dirty |-> [sl \in Slots |-> FALSE], val |-> [sl \in Slots |-> 0]]
    /\ events = <<>>
    /\ pinEdges = 0
    /\ sessions = 0
    /\ pc = IdlePc
    /\ cb = NoCallback
    /\ needsSave = FALSE
    /\ drains = 0
    /\ history = <<>>
    /\ flagTag = [sl \in Slots |-> 0]
    /\ lastRead = [slot |-> "weight", val |-> 0, saw |-> 0]
    /\ lastReq = [sl \in Slots |-> 0]
    /\ phase = [sl \in Slots |-> "none"]
    /\ writes = 0

Init ==
    /\ goalWeight = Grams(40)
    /\ momentary \in BOOLEAN
    /\ reedSwitch \in BOOLEAN
    /\ brewByTimeOnlyConfigured \in (IF reedSwitch /\ ~momentary THEN BOOLEAN ELSE {FALSE})
    /\ InitCommon

Next == TickStep \/ OnWriteStep \/ PinChange

Spec == Init /\ [][Next]_vars

\* ------------------------------------------------------------ the drain, step by step
\* The BLE callbacks run on another task than loop(): here processPendingBLEWrites
\* is taken one access to pendingWrite at a time, and onWrite one assignment at a
\* time, in every interleaving.  The device is otherwise quiet.

\* lines 203-204 (and the six cases after it): the two assignments of a requestWrite
PublishOrder_flagFirst == <<"flag", "value">>

PublishOrder == <<"value", "flag">>

Publish(pw, what, slot, val) ==
    IF what = "value" THEN [pw EXCEPT !.val[slot] = val]
    ELSE [pw EXCEPT !.dirty[slot] = TRUE]

CurC == [Cur EXCEPT !.events = events, !.needsSave = needsSave]

NextSlot(i) ==
    IF i < Len(DrainOrder) THEN [i |-> i + 1, st |-> "test", saw |-> 0]
    ELSE [i |-> i + 1, st |-> "save", saw |-> 0]

\* the slots a client writes here: the goal weight, a boolean and a duration
ConcSlots == {"weight", "reedSwitch", "dripDelay"}

\* onWrite, first assignment
onWriteBegin(slot, val) ==
    /\ cb.st = "none"
    /\ Len(history) < MaxCallbacks
    /\ history' = Append(history, [slot |-> slot, val |-> val])
    /\ cb' = [slot |-> slot, val |-> val, st |-> "half", id |-> Len(history) + 1]
    /\ pendingWrite' = Publish(pendingWrite, PublishOrder[1], slot, val)
    /\ flagTag' = IF PublishOrder[1] = "flag"
                  THEN [flagTag EXCEPT ![slot] = Len(history) + 1] ELSE flagTag
    /\ phase' = [phase EXCEPT ![slot] = "none"]
    /\ UNCHANGED <<progVars, pin, events, pinEdges, writes, sessions,
                   pc, needsSave, drains, lastRead, lastReq>>

\* onWrite, second assignment
onWriteEnd ==
    /\ cb.st = "half"
    /\ pendingWrite' = Publish(pendingWrite, PublishOrder[2], cb.slot, cb.val)
    /\ flagTag' = IF PublishOrder[2] = "flag"
                  THEN [flagTag EXCEPT ![cb.slot] = cb.id] ELSE flagTag
    /\ lastReq' = [lastReq EXCEPT ![cb.slot] = cb.val]
    /\ phase' = [phase EXCEPT ![cb.slot] = "written"]
    /\ cb' = NoCallback
    /\ UNCHANGED <<progVars, pin, events, pinEdges, writes, sessions,
                   pc, needsSave, drains, history, lastRead>>

\* loop() up to the call of processPendingBLEWrites, and line 695
DrainBegin ==
    /\ pc.st = "idle"
    /\ drains < MaxDrains
    /\ Assign(LoopHead(Cur, 1, "connecting"))
    /\ needsSave' = FALSE
    /\ pc' = NextSlot(0)
    /\ phase' = [sl \in Slots |-> IF phase[sl] = "written" THEN "draining" ELSE phase[sl]]
    /\ UNCHANGED <<pin, pinEdges, writes, sessions, cb, drains, history, flagTag,
                   lastRead, lastReq>>

\* if (pendingWrite.xDirty)
DrainTest ==
    /\ pc.st = "test"
    /\ pc' = IF pendingWrite.dirty[DrainOrder[pc.i]]
             THEN [pc EXCEPT !.st = "clear", !.saw = flagTag[DrainOrder[pc.i]]]
             ELSE NextSlot(pc.i)
    /\ UNCHANGED <<progVars, pin, pendingWrite, events, pinEdges, writes, sessions,
                   cb, needsSave, drains, history, flagTag, lastRead, lastReq, phase>>

\* pendingWrite.xDirty = false
DrainClear ==
    /\ pc.st = "clear"
    /\ pendingWrite' = ClearDirty(CurC, DrainOrder[pc.i]).pendingWrite
    /\ pc' = [pc EXCEPT !.st = "read"]
    /\ UNCHANGED <<progVars, pin, events, pinEdges, writes, sessions,
                   cb, needsSave, drains, history, flagTag, lastRead, lastReq, phase>>

\* val = pendingWrite.xVal, the comparison and the update
DrainRead ==
    LET slot == DrainOrder[pc.i]
        r == ApplyWrite(CurC, slot, pendingWrite.val[slot])
    IN  /\ pc.st = "read"
        /\ Assign(r)
        /\ needsSave' = r.needsSave
        /\ lastRead' = [slot |-> slot, val |-> pendingWrite.val[slot], saw |-> pc.saw]
        /\ pc' = NextSlot(pc.i)
        /\ UNCHANGED <<pin, pinEdges, writes, sessions, cb, drains, history, flagTag,
                       lastReq, phase>>

\* lines 780-784, and the rest of loop()
DrainEnd ==
    LET r == Rebase(LoopTail(SaveIfNeeded(CurC), NoEvent, pin))
    IN  /\ pc.st = "save"
        /\ Assign(r)
        /\ needsSave' = FALSE
        /\ pc' = IdlePc
        /\ drains' = drains + 1
        /\ phase' = [sl \in Slots |-> IF phase[sl] = "draining" THEN "drained" ELSE phase[sl]]
        /\ UNCHANGED <<pin, pinEdges, writes, sessions, cb, history, flagTag,
                       lastRead, lastReq>>

onWriteBeginStep == \E slot \in ConcSlots : \E val \in ByteVals : onWriteBegin(slot, val)

\* the goal weight is an integer or has a fraction (brew.goal_weight is a double)
InitConc ==
    /\ goalWeight \in {Grams(40), Grams(10) + 1}
    /\ momentary = FALSE
    /\ reedSwitch = TRUE
    /\ brewByTimeOnlyConfigured = FALSE
    /\ InitCommon

NextConc ==
    \/ onWriteBeginStep
    \/ onWriteEnd
    \/ DrainBegin
    \/ DrainTest
    \/ DrainClear
    \/ DrainRead
    \/ DrainEnd

SpecConc == InitConc /\ [][NextConc]_vars

\* ------------------------------------------------------------ other starting points
\* the device in the state d (a record like Cur), with nothing pending
InitState(d) ==
    /\ now = d.now
    /\ pin = FALSE
    /\ link = d.link
    /\ currentWeight = d.currentWeight
    /\ shot = d.shot
    /\ buttonArr = d.buttonArr
    /\ buttonPressed = d.buttonPressed
    /\ buttonLatched = d.buttonLatched
    /\ lastButtonRead_ms = d.lastButtonRead_ms
    /\ newButtonState = d.newButtonState
    /\ out = d.out
    /\ goalWeight = d.goalWeight
    /\ weightOffset = d.weightOffset
    /\ maxOffset = d.maxOffset
    /\ brewPulseDuration = d.brewPulseDuration
    /\ dripDelay = d.dripDelay
    /\ reedSwitchDelay = d.reedSwitchDelay
    /\ minWeightForPrediction = d.minWeightForPrediction
    /\ minShotDuration = d.minShotDuration
    /\ maxShotDuration = d.maxShotDuration
    /\ targetTime = d.targetTime
    /\ momentary = d.momentary
    /\ reedSwitch = d.reedSwitch
    /\ autoTare = d.autoTare
    /\ brewByTimeOnly = d.brewByTimeOnly
    /\ brewByTimeOnlyConfigured = d.brewByTimeOnlyConfigured
    /\ server = d.server
    /\ pendingWrite = [dirty |-> [sl \in Slots |-> FALSE], val |-> [sl \in Slots |-> 0]]
    /\ events = <<>>
    /\ pinEdges = 0
    /\ writes = 0
    /\ sessions = 0
    /\ pc = IdlePc
    /\ cb = NoCallback
    /\ needsSave = FALSE
    /\ drains = 0
    /\ history = <<>>
    /\ flagTag = [sl \in Slots |-> 0]
    /\ lastRead = [slot |-> "weight", val |-> 0, saw |-> 0]
    /\ lastReq = [sl \in Slots |-> 0]
    /\ phase = [sl \in Slots |-> "none"]

\* the idle device after setup(), as in InitCommon, reed contact, not momentary
IdleDevice ==
    [now |-> MaxNow, link |-> "disconnected", currentWeight |-> 0, shot |-> InitShot,
     buttonArr |-> [i \in 1..BUTTON_STATE_ARRAY_LENGTH |-> 0],
     buttonPressed |-> FALSE, buttonLatched |-> FALSE,
     lastButtonRead_ms |-> MaxNow - ReadAgeCap, newButtonState |-> 0, out |-> FALSE,
     goalWeight |-> Grams(40), weightOffset |-> Grams(3) \div 2, maxOffset |-> Grams(5),
     brewPulseDuration |-> 300, dripDelay |-> Secs(1),
     reedSwitchDelay |-> Secs(1) \div 2, minWeightForPrediction |-> Grams(10),
     minShotDuration |-> Secs(1), maxShotDuration |-> Secs(5), targetTime |-> Secs(3),
     momentary |-> FALSE, reedSwitch |-> TRUE, autoTare |-> TRUE,
     brewByTimeOnly |-> FALSE, brewByTimeOnlyConfigured |-> FALSE, server |-> TRUE]

\* ------------------------------------------------------------ the offset learner
\* The device right after a shot that ended by target time, the scale connected
\* and showing the weight f; loop() runs on.
FinalWeights == {Grams(38), Grams(44), Grams(46), Grams(52)}
GoalWeights == {Grams(40), Grams(45)}
WeightOffsets == {Grams(1), Grams(3)}

LearnDevice(f, g, o) ==
    [IdleDevice EXCEPT
        !.link = "connected", !.currentWeight = f, !.goalWeight = g,
        !.weightOffset = o,
        !.shot.start_timestamp_s = MaxNow - Secs(3),
        !.shot.shotTimer = Secs(3), !.shot.end_s = Secs(3),
        !.shot.expected_end_s = Fin(Secs(5))]

InitLearn ==
    \E f \in FinalWeights : \E g \in GoalWeights : \E o \in WeightOffsets :
        InitState(LearnDevice(f, g, o))

NextLearn == TickStep

SpecLearn == InitLearn /\ [][NextLearn]_vars

\* ------------------------------------------------------------ remote writes
\* The idle device with the scale switched off, a client writing characteristics,
\* loop() running on.  Each callback is taken whole here, between two passes of
\* loop().
WriteBytes == {0, 10, 200}
Characteristics == Slots \cup {"unknown"}
\* payloads: empty, one byte, two bytes
Payloads == {<<>>} \cup {<<v>> : v \in WriteBytes} \cup {<<1, 200>>}

\* CharacteristicCallbacks::onWrite without the test for an empty payload
\* (value[0] of an empty std::string is its terminator, 0)
onWrite_noEmptyCheck(pw, pChar, value) ==
    IF pChar \in Slots
    THEN requestWrite(pw, pChar, IF value = <<>> THEN 0 ELSE value[1])
    ELSE pw

\* CharacteristicCallbacks::onWrite: what it makes of pendingWrite
onWrite(pw, pChar, value) ==
    IF value = <<>> THEN pw
    ELSE IF pChar \in Slots THEN requestWrite(pw, pChar, value[1])
    ELSE pw

WriteCallback(pChar, value) ==
    /\ writes < MaxRequests
    /\ pendingWrite' = onWrite(pendingWrite, pChar, value)
    /\ writes' = writes + 1
    /\ cb' = [slot |-> pChar, val |-> Len(value), st |-> "returned", id |-> writes + 1]
    /\ events' = <<>>
    /\ UNCHANGED <<progVars, pin, pinEdges, sessions,
                   pc, needsSave, drains, history, flagTag, lastRead, lastReq, phase>>

WriteCallbackStep == \E pChar \in Characteristics : \E value \in Payloads : WriteCallback(pChar, value)

\* the goal weight is an integer or has a fraction (brew.goal_weight is a double)
InitWrite ==
    \E g \in {Grams(40), Grams(10) + 1} : InitState([IdleDevice EXCEPT !.goalWeight = g])

\* one pass of loop(); the connection attempt does not complete
QuietTick == Tick(1, IF link = "connected" THEN "none" ELSE "connecting", NoEvent)

NextWrite == QuietTick \/ WriteCallbackStep

SpecWrite == InitWrite /\ [][NextWrite]_vars

\* ------------------------------------------------------------ the learner, shot after shot
\* The device of InitLearn in button operation; the scale stays connected and
\* delivers weights as in ScaleEvents, and the user goes on to brew.
InitRelearn ==
    \E f \in FinalWeights : \E g \in GoalWeights : \E o \in WeightOffsets :
        InitState([LearnDevice(f, g, o) EXCEPT !.reedSwitch = FALSE])

SteadyTick == \E evt \in {e \in ScaleEvents(1) : e.kind # "drop"} : Tick(1, "none", evt)

NextRelearn == SteadyTick \/ PinChange

SpecRelearn == InitRelearn /\ [][NextRelearn]_vars

\* ------------------------------------------------------------ the store failing
\* The device after a finished shot, the scale connected and silent; a client
\* writes characteristics, the user brews, and the writes of a pass to the
\* configuration store succeed or fail.
InitStore == InitState(LearnDevice(Grams(46), Grams(45), Grams(1)))

StoreTick(ok) ==
    TickOf([Cur EXCEPT !.saveOk = ok], 1,
           IF link = "connected" THEN "none" ELSE "connecting", NoEvent)

StoreTickStep == \E ok \in BOOLEAN : StoreTick(ok)

\* the client writes the goal weight or the drip delay
StoreWriteStep ==
    \E pChar \in {"weight", "dripDelay"} : \E v \in {10, 200} : WriteCallback(pChar, <<v>>)

NextStore == StoreTickStep \/ StoreWriteStep \/ PinChange

SpecStore == InitStore /\ [][NextStore]_vars

\* ------------------------------------------------------------ the link to the scale
\* The idle device in button operation; the scale comes and goes, delivers
\* weights and asks for heartbeats, and the user brews.
InitLink == InitState([IdleDevice EXCEPT !.reedSwitch = FALSE])

LinkTick(hb, conn, evt) == TickOf([Cur EXCEPT !.heartbeatRequired = hb], 1, conn, evt)

LinkTickStep ==
    \E hb \in BOOLEAN :
      \E conn \in (IF link = "connected" THEN {"none"} ELSE {"connecting", "connected"}) :
        \E evt \in ScaleEvents(1) : LinkTick(hb, conn, evt)

\* a cooperating subsystem (the scale library's cleanup) destroys the BLE server
ServerDestroyed ==
    /\ server
    /\ server' = FALSE
    /\ events' = <<>>
    /\ UNCHANGED <<now, link, currentWeight, shot, buttonArr, buttonPressed, buttonLatched,
                   lastButtonRead_ms, newButtonState, out, goalWeight, weightOffset,
                   maxOffset, brewPulseDuration, dripDelay, reedSwitchDelay,
                   minWeightForPrediction, minShotDuration, maxShotDuration, targetTime,
                   momentary, reedSwitch, autoTare, brewByTimeOnly,
                   brewByTimeOnlyConfigured, pin, pendingWrite, pinEdges, writes,
                   sessions, concVars>>

NextLink == LinkTickStep \/ PinChange \/ ServerDestroyed

SpecLink == InitLink /\ [][NextLink]_vars

\* ------------------------------------------------------------ the mode changed under way
\* The idle device with a reed contact, the scale connected or switched off; the
\* user brews, the link to the scale may be lost, and a client writes the
\* momentary characteristic at any time, also during a session.
InitHold ==
    \E l \in {"disconnected", "connected"} : InitState([IdleDevice EXCEPT !.link = l])

HoldTick ==
    \E evt \in {NoEvent, [kind |-> "drop", w |-> 0]} :
        Tick(1, IF link = "connected" THEN "none" ELSE "connecting", evt)

MomentaryWrite(val) ==
    /\ writes < MaxRequests
    /\ pendingWrite' = requestWrite(pendingWrite, "momentary", val)
    /\ writes' = writes + 1
    /\ events' = <<>>
    /\ UNCHANGED <<progVars, pin, pinEdges, sessions, concVars>>

MomentaryWriteStep == \E val \in {0, 1} : MomentaryWrite(val)

NextHold == HoldTick \/ MomentaryWriteStep \/ PinChange

SpecHold == InitHold /\ [][NextHold]_vars

\* ------------------------------------------------------------ the learner in single precision
\* The device of InitRelearn with weights that are not multiples of half a gram.
\* In this specification the weights (currentWeight, goalWeight, weightOffset,
\* maxOffset, minWeightForPrediction) are counted in units of 2^-23 g, in which
\* every float from 1 g up to 256 g is an integer.  The scale delivers weights
\* between sessions only.
FineUnitsPerGram == 2^23

\* the float nearest to d tenths of a gram (d / 10.0f), for 10 <= d <= 255
Tenths(d) == RoundRat((d * FineUnitsPerGram) \div 10, (d * FineUnitsPerGram) % 10, 10)

FloatWeights == {82, 87, 89, 90, 100}
FloatOffsets == {11, 13, 15}

InitFloat ==
    \E f \in FloatWeights : \E o \in FloatOffsets :
        InitState([LearnDevice(Tenths(f), Tenths(100), Tenths(o)) EXCEPT
                      !.reedSwitch = FALSE, !.maxOffset = Tenths(50),
                      !.minWeightForPrediction = Tenths(100)])

FloatTick ==
    \E evt \in {NoEvent} \cup (IF shot.brewing THEN {}
                               ELSE {[kind |-> "weight", w |-> Tenths(f)] : f \in FloatWeights}) :
        Tick(1, "none", evt)

NextFloat == FloatTick \/ PinChange

SpecFloat == InitFloat /\ [][NextFloat]_vars

\* ------------------------------------------------------------ button operation
\* The idle device with a push button (reedSwitch false), momentary or not, the
\* scale connected and silent or switched off, and time limits beyond the time a
\* release takes to be recognised.  The user presses and releases the button,
\* also during a session; the link to the scale may be lost.
MaxButtonEdges == 4
ButtonInstants == {0, 1}

InitButton ==
    \E mom \in BOOLEAN : \E l \in {"disconnected", "connected"} :
        InitState([IdleDevice EXCEPT !.reedSwitch = FALSE, !.momentary = mom, !.link = l,
                                     !.maxShotDuration = Secs(9), !.targetTime = Secs(9)])

ButtonTick ==
    \E evt \in {NoEvent, [kind |-> "drop", w |-> 0]} :
        Tick(1, IF link = "connected" THEN "none" ELSE "connecting", evt)

ButtonMove ==
    /\ IF shot.brewing
       THEN InSession(0, ButtonInstants)
       ELSE ActiveReadings(buttonArr, BUTTON_STATE_ARRAY_LENGTH)
                = (IF pin THEN BUTTON_STATE_ARRAY_LENGTH ELSE 0)
    /\ pinEdges < MaxButtonEdges
    /\ pin' = ~pin
    /\ pinEdges' = pinEdges + 1
    /\ events' = <<>>
    /\ UNCHANGED <<progVars, pendingWrite, writes, sessions, concVars>>

NextButton == ButtonTick \/ ButtonMove

SpecButton == InitButton /\ [][NextButton]_vars

\* ------------------------------------------------------------ the trend estimator
\* A session in button operation, two time units old, the scale connected, with
\* the first two samples stored.  The scale goes on delivering one weight per
\* pass of loop() along the line through those two, at most one of them off the
\* line by a gram, and skips one pass after the SilentAfter-th sample.
TrendSlopes == {-1, 0, Grams(2) \div Secs(1)}
TrendIntercepts == {Grams(5), Grams(12), Grams(20)}
SilentAfter == 5

OnLine(sh, t) == sh.weight[1] + (sh.weight[2] - sh.weight[1]) * (t - sh.time_s[1])

Perturbed(sh) == \E i \in 1..sh.datapoints : sh.weight[i] # OnLine(sh, sh.time_s[i])

InitTrend ==
    \E m \in TrendSlopes : \E b \in TrendIntercepts : \E g \in GoalWeights :
        LET d == [IdleDevice EXCEPT
                    !.link = "connected", !.reedSwitch = FALSE,
                    !.goalWeight = g, !.weightOffset = Grams(5),
                    !.currentWeight = b + 2 * m,
                    !.shot.brewing = TRUE,
                    !.shot.start_timestamp_s = MaxNow - 2,
                    !.shot.shotTimer = 2,
                    !.shot.datapoints = 2,
                    !.shot.time_s = <<1, 2>>,
                    !.shot.weight = <<b + m, b + 2 * m>>]
        IN  InitState([d EXCEPT !.shot.expected_end_s = calculateEndTime(d)])

SampleTick(w) ==
    /\ shot.brewing
    /\ shot.datapoints < MaxStored
    /\ Tick(1, "none", [kind |-> "weight", w |-> w])

SampleTickStep ==
    LET w == OnLine(shot, now + 1 - shot.start_timestamp_s)
    IN  \E x \in {w} \cup (IF Perturbed(shot) THEN {} ELSE {w + Grams(1)}) : SampleTick(x)

SilentTick ==
    /\ shot.brewing
    /\ shot.datapoints = SilentAfter
    /\ now - shot.start_timestamp_s = shot.time_s[shot.datapoints]
    /\ Tick(1, "none", NoEvent)

NextTrend == SampleTickStep \/ SilentTick

SpecTrend == InitTrend /\ [][NextTrend]_vars

\* ------------------------------------------------------------ the input contact
\* The idle device with the scale switched off; the input contact moves at any
\* time, up to MaxFlips times, and loop() reads it once per pass.
PinFlip ==
    /\ pinEdges < MaxFlips
    /\ pin' = ~pin
    /\ pinEdges' = pinEdges + 1
    /\ events' = <<>>
    /\ UNCHANGED <<progVars, pendingWrite, writes, sessions, concVars>>

InitDebounce ==
    \E reed \in BOOLEAN : InitState([IdleDevice EXCEPT !.reedSwitch = reed])

NextDebounce == QuietTick \/ PinFlip

SpecDebounce == InitDebounce /\ [][NextDebounce]_vars

\* ------------------------------------------------------------ passes between two reads
\* The idle device with the scale switched off and the reed contact as input.
\* loop() also runs again within BUTTON_READ_PERIOD_MS of its last read of the
\* input (FastTick: the clock has not moved on by a time unit), and then skips
\* lines 529-560.
FastTick == Tick(0, IF link = "connected" THEN "none" ELSE "connecting", NoEvent)

InitCooldown ==
    \E mom \in BOOLEAN : InitState([IdleDevice EXCEPT !.momentary = mom])

NextCooldown == QuietTick \/ FastTick \/ PinFlip

SpecCooldown == InitCooldown /\ [][NextCooldown]_vars

\* ------------------------------------------------------------ the sample store
\* A session in button operation that has just started, the scale connected and
\* delivering SamplesPerUnit weights per time unit, one per pass of loop(): the
\* cup (EarlyWeight) while the store fills, the weights of ScaleWeights after.
EarlyWeight == Grams(5)

InitCapacity ==
    InitState([IdleDevice EXCEPT
        !.link = "connected", !.reedSwitch = FALSE, !.maxShotDuration = Secs(10),
        !.shot.brewing = TRUE, !.shot.start_timestamp_s = MaxNow,
        !.shot.expected_end_s = Fin(Secs(10))])

FillTick ==
    /\ shot.brewing
    /\ shot.datapoints < MAX_SHOT_DATAPOINTS
    /\ Tick(IF (shot.datapoints + 1) % SamplesPerUnit = 0 THEN 1 ELSE 0, "none",
            [kind |-> "weight", w |-> EarlyWeight])

LateTick ==
    /\ shot.brewing
    /\ shot.datapoints = MAX_SHOT_DATAPOINTS
    /\ \E w \in ScaleWeights : Tick(1, "none", [kind |-> "weight", w |-> w])

NextCapacity == FillTick \/ LateTick

SpecCapacity == InitCapacity /\ [][NextCapacity]_vars

\* the accepted range of a numeric parameter (ParameterRegistry::initialize,
\* Config::initializeConfigDefs), in the units of the model
AcceptedRange(slot) ==
    CASE slot = "weight" -> Grams(10)..Grams(100)
      [] slot = "minShotDuration" -> Secs(1)..Secs(30)
      [] slot = "maxShotDuration" -> Secs(10)..Secs(120)
      [] slot = "dripDelay" -> Secs(1)..Secs(10)

RangedSlots == {"weight", "minShotDuration", "maxShotDuration", "dripDelay"}

\* ------------------------------------------------------------ properties
Logged(e) == e \in Range(events)
StopReasons == {BUTTON, WEIGHT, TIME, DISCONNECT}
LearnerVerdicts == {"Error assumed, offset unchanged",
                    "Negative offset would result, offset unchanged",
                    "New offset"}

\* C1: a session is stopped once the time since its start exceeds
\* maxShotDuration: at the end of no tick is a session still Brewing a full
\* second beyond maxShotDuration.
C1_StoppedAfterMaxDuration ==
    (shot.brewing /\ shot.start_timestamp_s # 0)
        => now - shot.start_timestamp_s <= maxShotDuration + Secs(1)

\* C2: a tick that finds the link disconnected and not connecting (it calls
\* scale->init()) while a session is Brewing and time-only mode is not
\* configured ends the session with reason Disconnect in that tick.
C2_DisconnectStops ==
    [][(shot.brewing /\ ~brewByTimeOnlyConfigured /\ "scale.init" \in Range(events'))
          => (~shot'.brewing /\ EndedBy(DISCONNECT) \in Range(events'))]_vars

\* C3: setBrewingState(true) is never executed while the session is Brewing.
C3_NoStartWhileBrewing ==
    [][("Shot started" \in Range(events')) => ~shot.brewing]_vars

\* C4: the end reason is Undefined at the end of every tick; a stop is logged
\* with one of the four reasons, never with Undefined, and leaves the session
\* Idle with the reason reset.
C4_EndReasonUndefined ==
    /\ shot.end = UNDEF
    /\ ~Logged(EndedBy(UNDEF))
    /\ (\E e \in StopReasons : Logged(EndedBy(e))) => ~shot.brewing

C4_Witness == Logged(EndedBy(TIME)) /\ ~shot.brewing /\ shot.end = UNDEF

\* what a slot's parameter is, and what a written byte makes of it
Param(slot) ==
    CASE slot = "weight" -> [k |-> "n", n |-> goalWeight, b |-> FALSE]
      [] slot = "reedSwitch" -> [k |-> "b", n |-> 0, b |-> reedSwitch]
      [] slot = "momentary" -> [k |-> "b", n |-> 0, b |-> momentary]
      [] slot = "autoTare" -> [k |-> "b", n |-> 0, b |-> autoTare]
      [] slot = "minShotDuration" -> [k |-> "n", n |-> minShotDuration, b |-> FALSE]
      [] slot = "maxShotDuration" -> [k |-> "n", n |-> maxShotDuration, b |-> FALSE]
      [] slot = "dripDelay" -> [k |-> "n", n |-> dripDelay, b |-> FALSE]

Coerced(slot, v) ==
    CASE slot = "weight" -> [k |-> "n", n |-> Grams(v), b |-> FALSE]
      [] slot \in {"reedSwitch", "momentary", "autoTare"} -> [k |-> "b", n |-> 0, b |-> (v # 0)]
      [] OTHER -> [k |-> "n", n |-> Secs(v), b |-> FALSE]

\* C5: a drain that found a slot dirty reads the value stored by the
\* requestWrite that set the flag it found, or by a later one.
C5_PublishOrdering ==
    lastRead.saw > 0
        => \E id \in lastRead.saw..Len(history) :
              history[id] = [slot |-> lastRead.slot, val |-> lastRead.val]

C5_Witness ==
    /\ lastRead.saw = 1 /\ Len(history) = 2
    /\ history[1].slot = lastRead.slot /\ history[2].slot = lastRead.slot
    /\ history[1].val # history[2].val /\ lastRead.val = history[2].val

\* C6: once the last requestWrite(slot, v) is complete and a drain that began
\* after it is complete, the slot is clean and its parameter is the coerced v.
C6_NoWriteLost ==
    \A sl \in Slots :
        phase[sl] = "drained"
            => ~pendingWrite.dirty[sl] /\ Param(sl) = Coerced(sl, lastReq[sl])

\* C7: a session ends with reason Weight only in a tick where the scale is
\* connected, time-only mode is off, and the elapsed time of the session has
\* reached the predicted end and exceeds minShotDuration.
C7_WeightStopGuard ==
    Logged(EndedBy(WEIGHT))
        => /\ link = "connected"
           /\ ~brewByTimeOnly /\ ~brewByTimeOnlyConfigured
           /\ ~shot.brewing
           /\ GeqF(shot.shotTimer, shot.expected_end_s)
           /\ shot.shotTimer > minShotDuration

C7_Witness == Logged(EndedBy(WEIGHT)) /\ Logged("Weight achieved")

\* C8 as stated: a session starts only in a tick that recognises a press while
\* the session is Idle and reedSwitch is set.
C8_StartOnlyOnReedPress ==
    [][("Shot started" \in Range(events'))
          => (~shot.brewing /\ reedSwitch' /\ "Button pressed" \in Range(events'))]_vars

\* C8: a session starts only in a tick that recognises a press with reedSwitch
\* set, or in a tick that recognises the release of a registered press while
\* the session is Idle and not latched; a press with reedSwitch clear starts
\* nothing.
C8_StartOnlyOnPressOrRelease ==
    [][("Shot started" \in Range(events'))
          => \/ reedSwitch' /\ "Button pressed" \in Range(events')
             \/ /\ "Button released" \in Range(events')
                /\ ~shot.brewing /\ ~buttonLatched /\ buttonPressed]_vars

C8_Witness ==
    Logged("Shot started") /\ Logged("Button released") /\ ~reedSwitch /\ shot.brewing

\* C9: a tick that recognises the release of a registered press while the
\* session is Brewing and not latched ends the session with reason Button.
C9_ReleaseStops ==
    [][(shot.brewing /\ ~buttonLatched /\ buttonPressed
          /\ newButtonState = 1 /\ newButtonState' = 0)
          => (~shot'.brewing /\ EndedBy(BUTTON) \in Range(events'))]_vars

\* C10: the Offset Learner gives a verdict only in a tick that ends with the
\* session Idle and the scale connected.
C10_LearnerOnlyWhenIdle ==
    (\E v \in LearnerVerdicts : Logged(v)) => (~shot.brewing /\ link = "connected")

\* C11: a tick in which the Offset Learner gives a verdict with final weight f
\* leaves weightOffset + (f - goalWeight) in weightOffset if
\* |f - goalWeight + weightOffset| <= maxOffset and the new offset is >= 0, and
\* leaves weightOffset unchanged otherwise.
C11_LearnerUpdate ==
    [][(\E v \in LearnerVerdicts : v \in Range(events'))
          => LET f == currentWeight'
                 newOffset == weightOffset + (f - goalWeight')
             IN  weightOffset' =
                     IF Abs(f - goalWeight' + weightOffset) <= maxOffset' /\ newOffset >= 0
                     THEN newOffset ELSE weightOffset]_vars

C11_Witness ==
    /\ Logged("New offset")
    /\ currentWeight = Grams(46) /\ goalWeight = Grams(45) /\ weightOffset = Grams(2)

\* a step in which loop() drains at least one dirty slot: only the drain clears flags
Drains ==
    /\ \E sl \in Slots : pendingWrite.dirty[sl]
    /\ \A sl \in Slots : ~pendingWrite'.dirty[sl]

Saves(evs) == Cardinality({i \in 1..Len(evs) : evs[i] = "config.save"})

\* C12 as stated: a drain of at least one dirty slot makes exactly one
\* config.save call, whatever the written values.
C12_ExactlyOneSave ==
    [][Drains => Saves(events') = 1]_vars

\* C12: a drain makes one config.save call if the drain changed the parameter of
\* at least one dirty slot, however many slots were dirty, and none if every
\* written value left its parameter as it was.
C12_OneSaveIffChanged ==
    [][Drains => Saves(events') =
                    (IF \E sl \in Slots : pendingWrite.dirty[sl] /\ Param(sl)' # Param(sl)
                     THEN 1 ELSE 0)]_vars

C12_Witness ==
    /\ Logged("BLE: Goal weight updated") /\ Logged("BLE: Drip delay updated")
    /\ Saves(events) = 1

\* C13: an execution of the write callback leaves TuningState, the session, the
\* input state, the output line and the configuration store as they were, and
\* changes no pending-write slot but the one it addresses; with an empty payload
\* or an unknown characteristic it changes no slot at all.
C13_CallbackFrame ==
    [][writes' = writes + 1
          => /\ progVars' = progVars
             /\ Saves(events') = 0
             /\ \A sl \in Slots :
                    (sl # cb'.slot \/ cb'.val = 0)
                        => /\ pendingWrite'.dirty[sl] = pendingWrite.dirty[sl]
                           /\ pendingWrite'.val[sl] = pendingWrite.val[sl]]_vars

C13_Witness ==
    /\ cb.st = "returned" /\ cb.id = 2 /\ cb.val = 0 /\ cb.slot = "dripDelay"
    /\ pendingWrite.dirty["weight"] /\ ~pendingWrite.dirty["dripDelay"]

\* C14: a drain never changes goal weight, min or max shot duration or drip
\* delay to a value outside the parameter's accepted range.
C14_DrainKeepsRange ==
    [][Drains => \A sl \in RangedSlots :
                    (pendingWrite.dirty[sl] /\ Param(sl)' # Param(sl))
                        => Param(sl)'.n \in AcceptedRange(sl)]_vars

\* the window of the last N stored samples and its least-squares slope
\* SlopeNum / SlopeDen
Window == (shot.datapoints - N + 1)..shot.datapoints
SlopeNum ==
    N * SumOver([i \in Window |-> shot.time_s[i] * shot.weight[i]],
                shot.datapoints - N + 1, shot.datapoints)
      - SumOver([i \in Window |-> shot.time_s[i]], shot.datapoints - N + 1, shot.datapoints)
        * SumOver([i \in Window |-> shot.weight[i]], shot.datapoints - N + 1, shot.datapoints)
SlopeDen ==
    N * SumOver([i \in Window |-> shot.time_s[i] * shot.time_s[i]],
                shot.datapoints - N + 1, shot.datapoints)
      - SumOver([i \in Window |-> shot.time_s[i]], shot.datapoints - N + 1, shot.datapoints)
        * SumOver([i \in Window |-> shot.time_s[i]], shot.datapoints - N + 1, shot.datapoints)
Signal ==
    shot.datapoints >= N /\ shot.weight[shot.datapoints] >= minWeightForPrediction

\* C15: with samples stored, fewer than N of them or the latest below
\* minWeightForPrediction, the predicted end is maxShotDuration.
C15_NoSignalGivesMax ==
    (shot.datapoints > 0 /\ ~Signal) => shot.expected_end_s = Fin(maxShotDuration)

C15_Witness ==
    /\ shot.datapoints >= N
    /\ shot.weight[shot.datapoints] < minWeightForPrediction
    /\ shot.expected_end_s = Fin(maxShotDuration)

\* C16: with at least N samples stored and the latest at or above
\* minWeightForPrediction, a least-squares slope <= 0 over the last N samples
\* gives the predicted end maxShotDuration.
C16_StalledFlowGivesMax ==
    (Signal /\ SlopeDen > 0 /\ SlopeNum <= 0)
        => shot.expected_end_s = Fin(maxShotDuration)

\* C17: with at least N samples stored, the latest at or above
\* minWeightForPrediction, and the last N samples on a line weight = m * time + b
\* with m > 0, the predicted end is (goalWeight - weightOffset - b) / m.
C17_Projection ==
    Signal =>
        \A m \in 1..Grams(2) : \A b \in 0..Grams(20) :
            (\A i \in Window : shot.weight[i] = m * shot.time_s[i] + b)
                => /\ shot.expected_end_s.k = "fin"
                   /\ shot.expected_end_s.n * m
                        = shot.expected_end_s.d * (goalWeight - weightOffset - b)

\* the spec's example: weight = 2 * time + 5, goal 45 g, offset 5 g, 17.5 s
C17_Witness ==
    /\ Signal /\ goalWeight = Grams(45) /\ weightOffset = Grams(5)
    /\ \A i \in Window :
          shot.weight[i] = (Grams(2) \div Secs(1)) * shot.time_s[i] + Grams(5)
    /\ shot.expected_end_s.k = "fin"
    /\ 2 * shot.expected_end_s.n = shot.expected_end_s.d * Secs(35)

\* the force-off override of the read made by the next pass of loop()
ForceOffAtRead ==
    /\ reedSwitch /\ ~shot.brewing
    /\ now + 1 < shot.start_timestamp_s + shot.end_s + reedSwitchDelay

\* C18: every pass of loop() that reads the input puts the raw sample in front
\* of the 31 most recent ones and drops the oldest, and, unless the force-off
\* override applies, leaves the logical state active if and only if at least one
\* of these 31 samples was active.
C18_Debounce ==
    [][pinEdges' = pinEdges
          => /\ buttonArr'[1] = (IF pin THEN 1 ELSE 0)
             /\ \A i \in 2..BUTTON_STATE_ARRAY_LENGTH : buttonArr'[i] = buttonArr[i - 1]
             /\ ~ForceOffAtRead
                  => newButtonState' =
                        (IF \E i \in 1..BUTTON_STATE_ARRAY_LENGTH : buttonArr'[i] = 1
                         THEN 1 ELSE 0)]_vars

\* a single active sample, 31 reads ago, still holds the logical state active
C18_Witness ==
    /\ buttonArr[BUTTON_STATE_ARRAY_LENGTH] = 1
    /\ \A i \in 1..(BUTTON_STATE_ARRAY_LENGTH - 1) : buttonArr[i] = 0
    /\ newButtonState = 1

\* C19: the session is latched only in a tick where the switch is
\* non-momentary, the session is Brewing and not yet latched, the debounced input
\* is active and the time since the start exceeds minShotDuration.
C19_LatchOnlyWhileActive ==
    [][("Button latched" \in Range(events'))
          => /\ ~momentary' /\ shot.brewing /\ ~buttonLatched
             /\ newButtonState' = 1
             /\ now + 1 - shot.start_timestamp_s > minShotDuration']_vars

\* a step in which the session leaves Brewing
Leaves == shot.brewing /\ ~shot'.brewing

Pulsed(evs) ==
    \E i \in 1..Len(evs) : \E j \in (i + 1)..Len(evs) :
        evs[i] = "Output HIGH" /\ evs[j] = "Output LOW"

Released == ~out' /\ ~buttonLatched' /\ "Output LOW" \in Range(events')

\* C20 as stated: a tick in which the session leaves Brewing pulses the output
\* HIGH and then LOW in momentary mode, whatever the end reason, and in
\* non-momentary mode drives the output LOW and clears the latch.
C20_LeavingDrivesOutput ==
    [][Leaves => IF momentary' THEN Pulsed(events') /\ ~out' ELSE Released]_vars

\* C20: in momentary mode a tick in which the session leaves Brewing pulses the
\* output HIGH and then LOW if the end reason is Time or Weight, and does not
\* write the output if the end reason is Button; in non-momentary mode it drives
\* the output LOW and clears the latch.
C20_PulseOnTimeOrWeight ==
    [][Leaves => IF momentary'
                 THEN IF EndedBy(TIME) \in Range(events') \/ EndedBy(WEIGHT) \in Range(events')
                      THEN Pulsed(events') /\ ~out'
                      ELSE /\ EndedBy(BUTTON) \in Range(events')
                           /\ "Output HIGH" \notin Range(events')
                           /\ "Output LOW" \notin Range(events')
                           /\ out' = out
                 ELSE Released]_vars

C20_Witness ==
    /\ momentary /\ ~shot.brewing /\ Logged(EndedBy(BUTTON))
    /\ ~Logged("Output HIGH") /\ ~Logged("Output LOW")

\* C21: with reedSwitch set, a pass of loop() made after a session has ended and
\* before reedSwitchDelay has passed since its recorded end leaves the debounced
\* input inactive, whether or not the pass reads the input, and starts no
\* session.
C21_Cooldown ==
    [][(pinEdges' = pinEdges /\ ForceOffAtRead /\ shot.end_s # 0)
          => (newButtonState' = 0 /\ "Shot started" \notin Range(events'))]_vars

\* a step that is one pass of loop(): not an input edge, a client's write or the
\* loss of the BLE server
Pass == pinEdges' = pinEdges /\ writes' = writes /\ (server => server')

\* C22: a pass of loop() during a session, with time-only mode not configured and
\* the scale not connected when the stop conditions are evaluated, does not end
\* the session by Disconnect; brewByTimeOnly is true if the pass began with the
\* scale not connected; the elapsed time of the session is the time since its
\* start; and with elapsed >= targetTime the session ends in this pass, by Time
\* unless the button release ends it, or the pass takes the press or latch
\* transition that comes before.
C22_TransientDisconnect ==
    [][(Pass /\ shot.brewing /\ shot.start_timestamp_s # 0
          /\ ~brewByTimeOnlyConfigured /\ link' # "connected")
          => /\ EndedBy(DISCONNECT) \notin Range(events')
             /\ link # "connected" => brewByTimeOnly'
             /\ shot'.shotTimer = (IF shot'.brewing THEN now' - shot'.start_timestamp_s
                                   ELSE shot'.end_s)
             /\ shot'.shotTimer >= targetTime'
                  => \/ /\ ~shot'.brewing
                        /\ \/ EndedBy(TIME) \in Range(events')
                           \/ "Button released" \in Range(events')
                     \/ "Button pressed" \in Range(events')
                     \/ "Button latched" \in Range(events')]_vars

\* the scale was connected in this session and is not any more; the session has
\* ended by target time
C22_Witness ==
    /\ ~brewByTimeOnlyConfigured /\ link # "connected" /\ brewByTimeOnly
    /\ shot.datapoints > 0 /\ ~shot.brewing
    /\ Logged("Target brew time reached") /\ Logged(EndedBy(TIME))

\* C23: no more than MAX_SHOT_DATAPOINTS samples are ever stored, none at an
\* index >= MAX_SHOT_DATAPOINTS; and a pass of loop() that receives a weight
\* while the session is Brewing with the store full leaves the elapsed time of
\* the session at the time since its start.
C23_SampleCapacity ==
    [][/\ shot'.datapoints <= MAX_SHOT_DATAPOINTS
       /\ Len(shot'.time_s) <= MAX_SHOT_DATAPOINTS
       /\ Len(shot'.weight) <= MAX_SHOT_DATAPOINTS
       /\ (shot.brewing /\ shot'.brewing /\ shot.datapoints = MAX_SHOT_DATAPOINTS)
            => shot'.shotTimer = now' - shot'.start_timestamp_s]_vars

\* C24: at the end of every pass of loop() that leaves the session Brewing, the
\* elapsed time of the session (shotTimer, which the stop conditions of the pass
\* have compared) is the current time minus the start time of the session.
C24_ElapsedEveryTick ==
    (shot.brewing /\ shot.start_timestamp_s # 0)
        => shot.shotTimer = now - shot.start_timestamp_s

\* what the else-if chain of a pass finds, in terms of the state before the pass
\* and what the pass has read; the elapsed time is shot'.shotTimer unless the
\* pass starts a session
PressSeen == newButtonState' # 0 /\ ~buttonPressed
LatchSeen ==
    ~momentary' /\ shot.brewing /\ ~buttonLatched /\ shot'.shotTimer > minShotDuration'
ReleaseSeen == ~buttonLatched /\ newButtonState' = 0 /\ buttonPressed
MaxDurationSeen == shot.brewing /\ shot'.shotTimer > maxShotDuration'
TargetTimeSeen ==
    /\ shot.brewing /\ EndedBy(DISCONNECT) \notin Range(events')
    /\ link' # "connected" \/ brewByTimeOnly'
    /\ shot'.shotTimer >= targetTime'

\* C25: a pass of loop() during a session in which the scale is not connected or
\* brewByTimeOnly is set, elapsed >= targetTime, and neither press, latch,
\* button release nor max duration matches, ends the session with reason Time;
\* and the target-time stop is never taken with the scale connected and
\* brewByTimeOnly clear.
C25_StopByTargetTime ==
    [][Pass =>
        /\ (TargetTimeSeen /\ ~PressSeen /\ ~LatchSeen /\ ~ReleaseSeen /\ ~MaxDurationSeen)
              => /\ ~shot'.brewing
                 /\ "Target brew time reached" \in Range(events')
                 /\ EndedBy(TIME) \in Range(events')
        /\ "Target brew time reached" \in Range(events')
              => (shot.brewing /\ (link' # "connected" \/ brewByTimeOnly'))]_vars

\* time-only mode configured, the scale connected: the session ends by target time
C25_Witness ==
    /\ Logged("Target brew time reached") /\ Logged(EndedBy(TIME)) /\ ~shot.brewing
    /\ link = "connected" /\ brewByTimeOnlyConfigured
    /\ shot.shotTimer >= targetTime

\* the log lines of the five branches of the else-if chain
ChainLines == {"Button pressed", "Button latched", "Button released",
               "Max brew duration reached", "Target brew time reached"}
Count(evs, lines) == Cardinality({i \in 1..Len(evs) : evs[i] \in lines})
EndLines == {EndedBy(e) : e \in StopReasons \cup {UNDEF}}

\* C26: a pass of loop() takes at most one of the branches press, latch, release,
\* max duration and target time, the first in this order whose condition holds
\* (a release that coincides with elapsed > maxShotDuration ends the session by
\* Button); the weight stop is tested after the chain whatever the chain did;
\* and a pass ends a session at most once, with exactly one reason.
C26_FixedPriority ==
    [][Pass =>
        /\ Count(events', ChainLines) <= 1
        /\ PressSeen => "Button pressed" \in Range(events')
        /\ (~PressSeen /\ LatchSeen) => "Button latched" \in Range(events')
        /\ (~PressSeen /\ ~LatchSeen /\ ReleaseSeen)
              => /\ "Button released" \in Range(events')
                 /\ shot.brewing => EndedBy(BUTTON) \in Range(events')
        /\ (~PressSeen /\ ~LatchSeen /\ ~ReleaseSeen /\ MaxDurationSeen)
              => "Max brew duration reached" \in Range(events')
        /\ (/\ shot'.brewing \/ "Weight achieved" \in Range(events')
            /\ Count(events', {"Shot started"}) = 0
            /\ link' = "connected" /\ ~brewByTimeOnly'
            /\ GeqF(shot'.shotTimer, shot'.expected_end_s)
            /\ shot'.shotTimer > minShotDuration')
              => "Weight achieved" \in Range(events')
        /\ Count(events', EndLines) <= 1
        /\ Leaves => Count(events', {EndedBy(e) : e \in StopReasons}) = 1]_vars

\* release and max duration in the same pass: the session ends by Button
C26_Witness ==
    /\ Logged("Button released") /\ Logged(EndedBy(BUTTON)) /\ ~shot.brewing
    /\ shot.shotTimer > maxShotDuration

\* C27: after every pass of loop(), brewByTimeOnly is true if time-only mode is
\* configured, and otherwise tells whether the pass began with the scale not
\* connected, whatever it was before the pass.
C27_ModeSelection ==
    [][Pass => brewByTimeOnly' =
                  (IF brewByTimeOnlyConfigured THEN TRUE ELSE link # "connected")]_vars

\* time-only mode was on while the scale was disconnected and is off again
C27_Witness ==
    ~brewByTimeOnlyConfigured /\ link = "connected" /\ ~brewByTimeOnly /\ shot.brewing

\* C28: a pass of loop() that starts a session leaves it Brewing with elapsed 0,
\* no sample stored, the predicted end at the current maxShotDuration and the
\* start time at the current time; it resets and starts the timer of the scale,
\* and tares the scale if autoTare is set, if the scale is connected, and asks
\* nothing of the scale otherwise.
C28_StartRearms ==
    [][("Shot started" \in Range(events'))
          => /\ shot'.brewing
             /\ shot'.shotTimer = 0
             /\ shot'.datapoints = 0
             /\ shot'.expected_end_s = Fin(maxShotDuration')
             /\ shot'.start_timestamp_s = now'
             /\ "scale.resetTimer" \in Range(events') <=> link' = "connected"
             /\ "scale.startTimer" \in Range(events') <=> link' = "connected"
             /\ "scale.tare" \in Range(events') <=> (link' = "connected" /\ autoTare')]_vars

\* the second session starts with the scale connected
C28_Witness ==
    /\ Logged("Shot started") /\ sessions = 2 /\ link = "connected"
    /\ Logged("scale.resetTimer") /\ Logged("scale.tare") /\ shot.datapoints = 0

UpdateLines == {"BLE: Goal weight updated", "BLE: Reed switch updated",
                "BLE: Momentary updated", "BLE: Auto tare updated",
                "BLE: Min shot duration updated", "BLE: Max shot duration updated",
                "BLE: Drip delay updated"}

\* C29: the drain of a pass of loop() calls config.save at most once, after the
\* last slot has been processed, and calls it if and only if a dirty slot held a
\* value different from the current value of its parameter; with no slot dirty
\* it changes no parameter and does not save; and it leaves every dirty flag
\* false.
C29_BatchedSave ==
    [][Pass =>
        /\ Saves(events') <= 1
        /\ \A i, j \in 1..Len(events') :
              (events'[i] = "config.save" /\ events'[j] \in UpdateLines) => j < i
        /\ Saves(events') = 1
              <=> \E sl \in Slots :
                     pendingWrite.dirty[sl] /\ Coerced(sl, pendingWrite.val[sl]) # Param(sl)
        /\ (\A sl \in Slots : ~pendingWrite.dirty[sl])
              => (Saves(events') = 0 /\ \A sl \in Slots : Param(sl)' = Param(sl))
        /\ \A sl \in Slots : ~pendingWrite'.dirty[sl]]_vars

\* the config.save calls of a pass after the log line of a learner verdict
SavesAfterVerdict(evs) ==
    Cardinality({i \in 1..Len(evs) :
        evs[i] = "config.save" /\ \E j \in 1..(i - 1) : evs[j] \in LearnerVerdicts})

\* C30: a pass of loop() gives at most one learner verdict, only for a session
\* whose end is recorded, and clears the record, which only the end of a session
\* sets again; a pass that accepts calls config.save exactly once after the
\* verdict, a pass that rejects does not call it and leaves weightOffset as it
\* was.
C30_OncePerSession ==
    [][Pass =>
        /\ Count(events', LearnerVerdicts) <= 1
        /\ Count(events', LearnerVerdicts) = 1
              => /\ shot.end_s # 0 \/ Count(events', EndLines) = 1
                 /\ shot'.end_s = 0 /\ shot'.start_timestamp_s = 0
        /\ (shot.end_s = 0 /\ shot'.end_s # 0) => Count(events', EndLines) = 1
        /\ "New offset" \in Range(events') => SavesAfterVerdict(events') = 1
        /\ (Count(events', LearnerVerdicts) = 1 /\ "New offset" \notin Range(events'))
              => (SavesAfterVerdict(events') = 0 /\ weightOffset' = weightOffset)]_vars

\* the second verdict: the offset of 5 g comes from the verdict on the first shot
\* (44 g against a goal of 40 g, offset 1 g), the weight of 40 g from the second
C30_Witness ==
    /\ Logged("New offset") /\ Saves(events) = 1
    /\ goalWeight = Grams(40) /\ currentWeight = Grams(40) /\ weightOffset = Grams(5)
    /\ sessions = 1 /\ ~shot.brewing /\ shot.end_s = 0

WithoutFailures(evs) == SelectSeq(evs, LAMBDA e : e # "Failed to save config")

\* C31: a pass of loop() in which config.save fails, in the drain or after an
\* offset update, ends in the state in which the same pass ends when config.save
\* succeeds (parameters, session, latch, elapsed time, output line, pending
\* writes), and does all that pass does; only the failure is logged.
C31_SaveFailureNonFatal ==
    [][(Pass /\ "Failed to save config" \in Range(events'))
          => LET ok == Rebase(loop(Cur, 1,
                                   IF link = "connected" THEN "none" ELSE "connecting",
                                   NoEvent, pin))
             IN  /\ Cur' = [ok EXCEPT !.events = <<>>]
                 /\ WithoutFailures(events') = ok.events
                 /\ Saves(events') > 0]_vars

\* the save of a drain fails during a session: the written goal weight is in
\* effect and the session goes on
C31_Witness ==
    /\ Logged("Failed to save config") /\ Logged("BLE: Goal weight updated")
    /\ goalWeight = Grams(10) /\ shot.brewing

\* the pass starts with the scale connected, connecting, or neither
StartsConnected == link = "connected"
StartsConnecting == link = "connecting"

\* C32 as stated: the pass initiates the connection and resets the cached weight when
\* the scale is neither connected nor connecting; when the scale is not connected the
\* connection update runs exactly once and neither a heartbeat nor a weight read is
\* issued; when it is connected, at most one weight is consumed.
C32_LinkPerTick ==
    [][Pass =>
         /\ (~StartsConnected /\ ~StartsConnecting)
               => Count(events', {"scale.init"}) = 1
         /\ ~StartsConnected
               => /\ Count(events', {"scale.updateConnection"}) = 1
                  /\ Count(events', {"scale.heartbeat", "scale.getWeight"}) = 0
         /\ StartsConnected => Count(events', {"scale.getWeight"}) <= 1]_vars

\* C32, amended: the pass initiates the connection exactly when the scale is neither
\* connected nor connecting, and then the cached weight is zero unless a weight is
\* read later in the pass; the connection update runs exactly once when the scale
\* is not connected and not at all when it is; neither a heartbeat nor a weight read
\* is issued in a pass that starts not connected and leaves the connection still in
\* progress; a pass with the scale connected sends a due heartbeat, and at most one
\* heartbeat and at most one weight are taken per pass, brewing or not.
C32_LinkPerTickFromUpdate ==
    [][Pass =>
         /\ Count(events', {"scale.init"})
               = (IF ~StartsConnected /\ ~StartsConnecting THEN 1 ELSE 0)
         /\ (Logged("scale.init")' /\ ~Logged("scale.getWeight")') => currentWeight' = 0
         /\ Count(events', {"scale.updateConnection"}) = (IF StartsConnected THEN 0 ELSE 1)
         /\ (~StartsConnected /\ link' = "connecting")
               => Count(events', {"scale.heartbeat", "scale.getWeight"}) = 0
         /\ Count(events', {"scale.heartbeat"}) = Count(events', {"scale.heartbeatRequired"})
         /\ Count(events', {"scale.heartbeat"}) <= 1
         /\ Count(events', {"scale.getWeight"}) <= 1]_vars

\* a heartbeat and a weight taken in the pass that completes the connection, idle
C32_Witness ==
    /\ Logged("scale.updateConnection") /\ Logged("scale.heartbeat")
    /\ Logged("scale.getWeight") /\ ~shot.brewing

\* C33: a pass that finds the BLE server destroyed sets it up again, whatever the
\* state of the link to the scale.
C33_SelfHealing ==
    [][(Pass /\ ~server) => (server' /\ Logged("BLE server initialized")')]_vars

\* C34: between two passes of loop() the output line is HIGH only while the
\* session is Brewing and latched.
C34_OutputOnlyWhileLatched == out => (shot.brewing /\ buttonLatched)

\* a session that was latched when momentary was switched on has ended, by the
\* pulse: the output line is LOW
C34_Witness ==
    /\ ~shot.brewing /\ momentary /\ buttonLatched /\ ~out
    /\ Logged("Output HIGH") /\ Logged("Output LOW")

\* C35: between two passes of loop() the latch is set only while the session is
\* Brewing.
C35_LatchOnlyWhileBrewing == buttonLatched => shot.brewing

\* C36: a pass of loop() in which the learner accepts an update leaves
\* 0 <= weightOffset <= maxOffset.
C36_OffsetInRange ==
    [][Logged("New offset")' => (0 <= weightOffset' /\ weightOffset' <= maxOffset')]_vars

\* an accepted update at the upper end of the range
C36_Witness == Logged("New offset") /\ weightOffset = maxOffset

\* the pass ends with the cached weight below goalWeight - weightOffset
Undershoot == currentWeight' < fsub(goalWeight', weightOffset)
SomeVerdict == \E v \in LearnerVerdicts : v \in Range(events')

\* after a pass with the weight below the threshold the learner has given no
\* verdict, the offset is as it was and a pending shot is still pending
NotEvaluated ==
    /\ ~SomeVerdict
    /\ weightOffset' = weightOffset
    /\ (shot.start_timestamp_s # 0 /\ shot.end_s # 0)
          => (shot.start_timestamp_s' # 0 /\ shot.end_s' # 0)

\* C37 as stated: a pass of loop() that ends with the cached weight below
\* goalWeight - weightOffset gives no verdict, leaves weightOffset and leaves a
\* pending shot pending; every verdict is given with newOffset >= 0 and none of
\* them is the negative-offset rejection.
C37_UndershootNeverEvaluated ==
    [][Pass =>
         /\ Undershoot => NotEvaluated
         /\ SomeVerdict
               => /\ fadd(weightOffset, fsub(currentWeight', goalWeight')) >= 0
                  /\ ~Logged("Negative offset would result, offset unchanged")']_vars

\* C37, amended: as above, but newOffset >= 0 only up to the rounding of single
\* precision: a verdict is given with newOffset above minus one unit in the last
\* place of the goal weight, and the negative-offset rejection is taken only with
\* the cached weight equal to the threshold as computed, goalWeight - weightOffset
\* rounded, and leaves the offset as it was.
C37_UndershootUpToRounding ==
    [][Pass =>
         /\ Undershoot => NotEvaluated
         /\ SomeVerdict
               => fadd(weightOffset, fsub(currentWeight', goalWeight')) > -Quantum(goalWeight')
         /\ Logged("Negative offset would result, offset unchanged")'
               => /\ currentWeight' = fsub(goalWeight', weightOffset)
                  /\ weightOffset' = weightOffset]_vars

\* a finished shot whose final weight stays below the threshold: the drip delay
\* has passed, the scale is connected, the shot is still pending
C37_Witness ==
    /\ ~shot.brewing /\ shot.start_timestamp_s # 0 /\ shot.end_s # 0
    /\ link = "connected"
    /\ now > shot.start_timestamp_s + shot.end_s + dripDelay
    /\ currentWeight < fsub(goalWeight, weightOffset)
    /\ events # <<>>

\* C38: with reedSwitch false, a pass of loop() that recognises a press does not
\* start a session and ends one only by weight; a pass that recognises the release
\* of a registered press while the session is not latched toggles the session:
\* Idle to Brewing, or Brewing to Idle with end reason Button.
C38_ButtonOperation ==
    [][(Pass /\ ~reedSwitch /\ ~reedSwitch') =>
         /\ PressSeen => (shot'.brewing = shot.brewing \/ Logged(EndedBy(WEIGHT))')
         /\ ReleaseSeen
               => /\ shot'.brewing = ~shot.brewing
                  /\ shot.brewing => Logged(EndedBy(BUTTON))'
                  /\ ~shot.brewing => Logged("Shot started")']_vars

\* C39: a pass of loop() that drains a dirty goal-weight slot holding the byte v
\* leaves goalWeight equal to v, whatever goalWeight was before.
C39_GoalWeightWritten ==
    [][(Pass /\ pendingWrite.dirty["weight"])
          => goalWeight' = Grams(pendingWrite.val["weight"])]_vars
====
